---- MODULE Spec2Model ----
(***************************************************************************)
(* Transport comparison of travel-agent1: compare_transport, the           *)
(* TransportExecutor (rail retry, flight query, data-sufficiency gate,     *)
(* summarization), the 12306 MCP client with its station fallback, the     *)
(* MCP JSON-RPC base client and the IATA city-code resolver.               *)
(*                                                                         *)
(* Python values are modelled as follows.  A dict whose keys the code      *)
(* fixes is a TLA+ record and d.get(k) is Get(d, k).  A value whose type   *)
(* the code tests (isinstance) is tagged: None, Str, JsonText, List, Dict. *)
(* The content of a Str is a sequence of characters (one-character         *)
(* strings); a str the code never looks into is a one-element sequence     *)
(* holding the whole text.  A multi-line text is a sequence of lines.      *)
(***************************************************************************)
EXTENDS Integers, Sequences, FiniteSets, TLC

\* ------------------------------------------------------------ bounds
\* Longest ticket list a provider answers with.
MaxTickets == 2
\* Longest station list a provider answers with beyond the probe cap.
MaxExtraStations == 1
\* Longest itinerary list the flight provider answers with.
MaxItineraries == 11
\* Sessions the chat router creates, chat_message requests it is sent, and
\* steps of the clock.
MaxSessions == 1
MaxRequests == 3
MaxTicks == 3

\* ------------------------------------------------------------ values

None == [t |-> "None"]
Str(s) == [t |-> "str", s |-> s]
\* a str that holds the JSON encoding of v
JsonText(v) == [t |-> "str", enc |-> v]
List(xs) == [t |-> "list", items |-> xs]
Dict(d) == [t |-> "dict", d |-> d]

IsStr(v) == v.t = "str"
IsList(v) == v.t = "list"
IsDict(v) == v.t = "dict"

\* d.get(k) on a record
Get(d, k) == IF k \in DOMAIN d THEN d[k] ELSE None
\* v.get(k) on a tagged Dict
DGet(v, k) == Get(v.d, k)

\* Python truthiness of a tagged value
Truthy(v) ==
    CASE v.t = "None" -> FALSE
      [] v.t = "list" -> Len(v.items) > 0
      [] v.t = "dict" -> DOMAIN v.d # {}
      [] v.t = "str" -> IF "s" \in DOMAIN v THEN v.s # <<>> ELSE TRUE
      [] OTHER -> TRUE

\* ------------------------------------------------------------ strings

Blank == {" ", "\n"}

RECURSIVE LStrip(_)
LStrip(s) == IF s # <<>> /\ Head(s) \in Blank THEN LStrip(Tail(s)) ELSE s

RECURSIVE RStrip(_)
RStrip(s) ==
    IF s # <<>> /\ s[Len(s)] \in Blank THEN RStrip(SubSeq(s, 1, Len(s) - 1)) ELSE s

\* str.strip() on a sequence of characters
Strip(s) == RStrip(LStrip(s))

Digits == {"0", "1", "2", "3", "4", "5", "6", "7", "8", "9"}
LatinLower == {"a", "b", "c", "d", "e", "f", "g", "h", "i", "j", "k", "l", "m",
               "n", "o", "p", "q", "r", "s", "t", "u", "v", "w", "x", "y", "z"}
LatinUpper == {"A", "B", "C", "D", "E", "F", "G", "H", "I", "J", "K", "L", "M",
               "N", "O", "P", "Q", "R", "S", "T", "U", "V", "W", "X", "Y", "Z"}
\* The CJK characters of the modelled city names, each one character of a
\* str, written by its pinyin: bei jing (Beijing), shang hai (Shanghai), shi
\* (the administrative suffix), ha er bin (Harbin), huo xing (no city).
\* str.isalpha() is true of each.
Han == {"<bei>", "<jing>", "<shang>", "<hai>", "<shi>", "<ha>", "<er>", "<bin>",
        "<huo>", "<xing>", "<san>", "<ya>"}

IsAlphaChar(c) == c \in LatinLower \cup LatinUpper \cup Han

\* str.isalpha(): non-empty and every character a letter
IsAlpha(s) == s # <<>> /\ \A i \in 1..Len(s) : IsAlphaChar(s[i])

UpperChar(c) ==
    CASE c = "a" -> "A" [] c = "b" -> "B" [] c = "c" -> "C" [] c = "d" -> "D"
      [] c = "e" -> "E" [] c = "f" -> "F" [] c = "g" -> "G" [] c = "h" -> "H"
      [] c = "i" -> "I" [] c = "j" -> "J" [] c = "k" -> "K" [] c = "l" -> "L"
      [] c = "m" -> "M" [] c = "n" -> "N" [] c = "o" -> "O" [] c = "p" -> "P"
      [] c = "q" -> "Q" [] c = "r" -> "R" [] c = "s" -> "S" [] c = "t" -> "T"
      [] c = "u" -> "U" [] c = "v" -> "V" [] c = "w" -> "W" [] c = "x" -> "X"
      [] c = "y" -> "Y" [] c = "z" -> "Z" [] OTHER -> c

\* str.upper()
Upper(s) == [i \in 1..Len(s) |-> UpperChar(s[i])]

\* YYYY_MM_DD_RE = ^\d{4}-\d{2}-\d{2}$ matched against s.strip()
YYYY_MM_DD_RE(s) ==
    /\ Len(s) = 10
    /\ \A i \in {1, 2, 3, 4, 6, 7, 9, 10} : s[i] \in Digits
    /\ s[5] = "-"
    /\ s[8] = "-"

\* _is_valid_yyyy_mm_dd(s): s is a tagged value
_is_valid_yyyy_mm_dd(v) == IsStr(v) /\ "enc" \notin DOMAIN v /\ YYYY_MM_DD_RE(Strip(v.s))

\* _is_nonempty_list(x)
_is_nonempty_list(x) == IsList(x) /\ Len(x.items) > 0

\* _extract_raw_len(d): d a result record
_extract_raw_len(d) == IF IsList(Get(d, "raw")) THEN Len(Get(d, "raw").items) ELSE 0

\* _normalize_city(s)
_normalize_city(v) == IF IsStr(v) /\ "enc" \notin DOMAIN v THEN Strip(v.s) ELSE <<>>

\* ------------------------------------------------------------ MCP base client

\* str(status_code) for the statuses the modelled providers answer with
StatusText(n) ==
    CASE n = 200 -> "200" [] n = 404 -> "404" [] n = 500 -> "500"
      [] n = 502 -> "502" [] OTHER -> "???"

\* What an HTTP POST to a provider does: it raises (connection error,
\* timeout) or it answers with a status, a content type and a body text.  A
\* body text is the JSON encoding of a value (JsonText), one SSE event whose
\* data line is the JSON encoding of a value (SseText), or neither (Str).
Raises(e) == [kind |-> "raise", exc |-> e]
HttpResponse(status, content_type, text) ==
    [kind |-> "http", status_code |-> status, content_type |-> content_type,
     text |-> text]
SseText(v) == [t |-> "str", sse |-> v]

\* the request payload of call_tool(name, arguments)
ToolCall(name, arguments) ==
    [jsonrpc |-> "2.0", id |-> "1", method |-> "tools/call",
     params |-> [name |-> name, arguments |-> arguments]]

\* _try_parse_sse_json(text): the value of the first data line, or None
_try_parse_sse_json(text) == IF "sse" \in DOMAIN text THEN text.sse ELSE None

\* data of _rpc (lines 66-69): resp.json(), or on its error the SSE parse
RespData(resp) ==
    IF "enc" \in DOMAIN resp.text THEN resp.text.enc ELSE _try_parse_sse_json(resp.text)

\* _rpc with the answer resp of client.post (resp.kind = "http");
\* content_length is left out of meta
_rpc(base_url, payload, resp) ==
    IF base_url = ""
    THEN [success |-> FALSE, error |-> Str(<<"MCP base_url not configured">>)]
    ELSE
      LET meta == [status_code |-> resp.status_code,
                   content_type |-> resp.content_type,
                   payload |-> payload]
          text == resp.text
          data == RespData(resp)
      IN  IF resp.status_code >= 400
          THEN [success |-> FALSE,
                error |-> Str(<<"HTTP ", StatusText(resp.status_code)>>),
                raw |-> text, meta |-> meta]
          ELSE IF ~IsDict(data)
          THEN [success |-> FALSE, error |-> Str(<<"cannot parse MCP response">>),
                raw |-> text, meta |-> meta]
          ELSE IF Truthy(DGet(data, "error"))
          THEN [success |-> FALSE, error |-> [t |-> "str", str_of |-> DGet(data, "error")],
                raw |-> data, meta |-> meta]
          ELSE [success |-> TRUE, data |-> data, meta |-> meta]

\* call_tool(name, arguments)
call_tool(base_url, name, arguments, resp) ==
    _rpc(base_url, ToolCall(name, arguments), resp)

\* _extract_result_json(rpc_data)
_extract_result_json(rpc_data) ==
    IF ~IsDict(rpc_data) THEN None
    ELSE
      LET result == DGet(rpc_data, "result")
      IN  IF /\ IsDict(result)
             /\ IsList(DGet(result, "content"))
             /\ Len(DGet(result, "content").items) > 0
             /\ IsStr(DGet(DGet(result, "content").items[1], "text"))
          THEN LET txt == DGet(DGet(result, "content").items[1], "text")
               IN  IF "enc" \in DOMAIN txt THEN txt.enc ELSE txt
          ELSE result

\* A JSON-RPC answer whose first content item is a text holding txt, sent
\* as JSON or as an SSE event.
ToolResult(txt) ==
    Dict([jsonrpc |-> Str(<<"2.0">>),
          result |-> Dict([content |-> List(<<Dict([type |-> Str(<<"text">>),
                                                     text |-> txt])>>)])])
ToolAnswer(content_type, txt) ==
    HttpResponse(200, content_type,
                 IF content_type = "text/event-stream" THEN SseText(ToolResult(txt))
                 ELSE JsonText(ToolResult(txt)))

\* ------------------------------------------------------------ city codes

BeiJing == <<"<bei>", "<jing>">>
ShangHai == <<"<shang>", "<hai>">>
HaErBin == <<"<ha>", "<er>", "<bin>">>
HuoXing == <<"<huo>", "<xing>">>
Shi == <<"<shi>">>
\* a name of three characters that is no code and that no table knows
SanYa1 == <<"<san>", "<ya>", "1">>

\* app.data.city_code_map.CITY_CODE_MAP: name -> IATA city code
CITY_CODE_MAP(name) ==
    CASE name = BeiJing -> Str(<<"B", "J", "S">>)
      [] name = ShangHai -> Str(<<"S", "H", "A">>)
      [] name = HaErBin -> Str(<<"H", "R", "B">>)
      [] OTHER -> None

\* ALIASES.get(s, s): the entries of the seven listed cities that are modelled
ALIASES(s) ==
    CASE s = BeiJing \o Shi -> BeiJing
      [] s = ShangHai \o Shi -> ShangHai
      [] OTHER -> s

\* to_iata_city_code(name_or_code): a Str, or None
to_iata_city_code(name_or_code) ==
    LET s == Strip(name_or_code)
    IN  IF s = <<>> THEN None
        ELSE IF Len(s) = 3 /\ IsAlpha(s) THEN Str(Upper(s))
        ELSE LET code == CITY_CODE_MAP(ALIASES(s))
             IN  IF IsStr(code) /\ code.s # <<>> THEN Str(Upper(code.s)) ELSE None

\* ------------------------------------------------------------ 12306 client

StationKeys ==
    <<"station_code", "stationCode", "code", "telecode", "station_telecode",
      "stationTelecode">>

RECURSIVE PickKey(_, _)
\* the for loop of _pick_station_code over the keys from position i
PickKey(v, i) ==
    IF i > Len(StationKeys) THEN None
    ELSE LET val == DGet(v, StationKeys[i])
         IN  IF IsStr(val) /\ "enc" \notin DOMAIN val /\ Strip(val.s) # <<>>
             THEN Str(Strip(val.s))
             ELSE PickKey(v, i + 1)

\* _pick_station_code(v): a Str, or None
_pick_station_code(v) ==
    CASE v.t = "None" -> None
      [] v.t = "str" ->
           IF "enc" \notin DOMAIN v /\ Strip(v.s) # <<>> THEN Str(Strip(v.s)) ELSE None
      [] v.t = "dict" -> PickKey(v, 1)
      [] OTHER -> None

RECURSIVE CityEntry(_, _, _)
\* m.get(city) for m = {x.get("city"): x for x in citys if isinstance(x, dict)}:
\* the last dict entry of citys[1..i] whose city is the one asked for
CityEntry(citys, city, i) ==
    IF i = 0 THEN None
    ELSE IF IsDict(citys[i]) /\ DGet(citys[i], "city") = Str(city) THEN citys[i]
    ELSE CityEntry(citys, city, i - 1)

\* x or y
Or(x, y) == IF Truthy(x) THEN x ELSE y

\* from_code of query_12306_trains (lines 46-55); the city-keyed last
\* alternative of the else branch is not produced by the modelled payloads
FromCode(codes_result, departure) ==
    IF IsList(DGet(codes_result, "citys"))
    THEN _pick_station_code(
             CityEntry(DGet(codes_result, "citys").items, departure,
                       Len(DGet(codes_result, "citys").items)))
    ELSE _pick_station_code(
             Or(DGet(codes_result, "fromStation"), DGet(codes_result, "from")))

ToCode(codes_result, destination) ==
    IF IsList(DGet(codes_result, "citys"))
    THEN _pick_station_code(
             CityEntry(DGet(codes_result, "citys").items, destination,
                       Len(DGet(codes_result, "citys").items)))
    ELSE _pick_station_code(
             Or(DGet(codes_result, "toStation"), DGet(codes_result, "to")))

\* _summarize_trains(trains): only the count is kept; min_price and
\* available_train_count are read by nothing that is modelled
_summarize_trains(trains) == [count |-> IF IsList(trains) THEN Len(trains.items) ELSE 0]

\* _get_tickets(fc, tc) once call_tool has answered with r
_get_tickets(r, fc, tc, date) ==
    IF ~r.success THEN r
    ELSE
      LET result_obj == _extract_result_json(Get(r, "data"))
          trains == IF IsList(result_obj) THEN result_obj
                    ELSE IF IsDict(result_obj) /\ IsList(DGet(result_obj, "data"))
                    THEN DGet(result_obj, "data")
                    ELSE List(<<>>)
      IN  [success |-> TRUE,
           data |-> trains,
           summary |-> _summarize_trains(trains),
           meta |-> [fromStation |-> fc, toStation |-> tc, date |-> date,
                     content_type |-> Get(r.meta, "content_type")]]

\* first.setdefault("meta", {}); first["meta"]["fallback"] = marker
WithFallback(r, marker) ==
    LET meta == IF "meta" \in DOMAIN r THEN r.meta ELSE <<>>
    IN  [k \in DOMAIN r \cup {"meta"} |->
            IF k = "meta"
            THEN [j \in DOMAIN meta \cup {"fallback"} |->
                     IF j = "fallback" THEN marker ELSE meta[j]]
            ELSE r[k]]

\* a station list that is probed whole
WholeList(xs) == xs

\* dep_list[:5]
Top5(xs) == SubSeq(xs, 1, IF Len(xs) < 5 THEN Len(xs) ELSE 5)

RECURSIVE NextPair(_, _, _, _)
\* The nested for loops of lines 126-133 resumed at departure index di and
\* arrival index ti: the next pair of entries that both carry a station
\* code, or <<0, 0>> when the loops end.
NextPair(dep_list, arr_list, di, ti) ==
    IF di > Len(dep_list) THEN <<0, 0>>
    ELSE IF ~Truthy(_pick_station_code(dep_list[di]))
    THEN NextPair(dep_list, arr_list, di + 1, 1)
    ELSE IF ti > Len(arr_list) THEN NextPair(dep_list, arr_list, di + 1, 1)
    ELSE IF ~Truthy(_pick_station_code(arr_list[ti]))
    THEN NextPair(dep_list, arr_list, di, ti + 1)
    ELSE <<di, ti>>

\* ------------------------------------------------------------ providers

\* str(i) for the small indices of the modelled payloads
Num(i) ==
    <<"0", "1", "2", "3", "4", "5", "6", "7", "8", "9", "10", "11", "12", "13", "14",
      "15", "16", "17", "18", "19", "20">>[i + 1]

\* The station code the rail provider gives for the i-th station of a city
\* (i = 0: the representative station).
StationOf(city, i) == Str(<<"station", Num(i)>> \o city)

\* One ticket of a ticket list.
Ticket(i) == Dict([train_no |-> Str(<<"G", Num(i)>>)])
Tickets(n) == [i \in 1..n |-> Ticket(i)]

Json == "application/json"
Sse == "text/event-stream"

Date1 == <<"2", "0", "2", "5", "-", "0", "3", "-", "1", "0">>
Date2 == <<"2", "0", "2", "5", "-", "0", "3", "-", "1", "5">>
Date3 == <<"2", "0", "2", "5", "-", "0", "3", "-", "2", "0">>
Date4 == <<"2", "0", "2", "5", "-", "0", "3", "-", "2", "5">>
NotADate == <<"n", "e", "x", "t", " ", "w", "e", "e", "k">>

\* The answers of the providers are bounded by the date asked about: for
\* Date1 a provider may give every modelled answer, for any other date only
\* an HTTP 502 or a plain answer.  Requests of one leg are
\* modelled on Date1, requests of two legs on the other dates.
EveryAnswer(date) == date = Date1

\* The answers every tool call can meet, whatever the tool: an HTTP error
\* status, a raised transport error, an unparseable body, a JSON-RPC error
\* object.  Each names the attempt n it was given in.
FailingResponses(date, n) ==
    { HttpResponse(502, "text/html", Str(<<"Bad Gateway", Num(n)>>)) }
    \cup
    IF EveryAnswer(date)
    THEN { Raises(Str(<<"ConnectTimeout", Num(n)>>)),
           HttpResponse(200, "text/html", Str(<<"<html>", Num(n)>>)),
           HttpResponse(200, Json,
                        JsonText(Dict([jsonrpc |-> Str(<<"2.0">>),
                                       error |-> Dict([message |-> Str(<<"busy", Num(n)>>)])]))) }
    ELSE {}

\* get-station-code-of-citys: both cities, the destination left out, the
\* from/to shape, a text that is not JSON
CodesResponses(departure, destination, date, n) ==
    FailingResponses(date, n) \cup
    { ToolAnswer(Json, JsonText(Dict([citys |-> List(<<
          Dict([city |-> Str(departure), station_code |-> StationOf(departure, 0)]),
          Dict([city |-> Str(destination), station_code |-> StationOf(destination, 0)])
          >>)]))) }
    \cup
    IF EveryAnswer(date)
    THEN { ToolAnswer(Json, JsonText(Dict([citys |-> List(<<
               Dict([city |-> Str(departure),
                     station_code |-> StationOf(departure, 0)])>>),
               note |-> Str(<<"unknown city", Num(n)>>)]))),
           ToolAnswer(Sse, JsonText(Dict([fromStation |-> StationOf(departure, 0),
                                          toStation |-> StationOf(destination, 0)]))),
           ToolAnswer(Json, Str(<<"unknown city", Num(n)>>)) }
    ELSE {}

\* get-tickets: a ticket list of every length up to MaxTickets, an object
\* holding a list, an object holding none, a text that is not JSON
TicketsResponses(date, n) ==
    FailingResponses(date, n) \cup
    { ToolAnswer(Json, JsonText(List(Tickets(k)))) :
        k \in IF EveryAnswer(date) THEN 0..MaxTickets ELSE {0, 1} }
    \cup
    IF EveryAnswer(date)
    THEN { ToolAnswer(Sse, JsonText(Dict([data |-> List(Tickets(1))]))),
           ToolAnswer(Json, JsonText(Dict([message |-> Str(<<"busy">>)]))),
           ToolAnswer(Json, Str(<<"no trains">>)) }
    ELSE {}

\* The station lists of a city: none, and one whose entries come in every
\* shape _pick_station_code tells apart (a code, a blank str, an object with
\* a blank first key, an object without a code) and which is longer than the
\* five entries the probe keeps; for Date4 that list and one of as many
\* entries that all carry a code.
MixedStations(city) ==
    <<StationOf(city, 1),
      Str(<<" ">>),
      Dict([station_code |-> Str(<<" ">>), code |-> StationOf(city, 2)]),
      Dict([name |-> Str(<<"no code">>)]),
      Dict([station_code |-> StationOf(city, 3)])>>
    \o [i \in 1..MaxExtraStations |-> StationOf(city, 5 + i)]

StationLists(city, date) ==
    IF EveryAnswer(date)
    THEN { <<>>, MixedStations(city) }
    ELSE IF date = Date4
    THEN { MixedStations(city),
           [i \in 1..(5 + MaxExtraStations) |-> StationOf(city, i)] }
    ELSE { <<StationOf(city, 1)>> }

\* get-stations-code-in-city
StationsResponses(city, date, n) ==
    FailingResponses(date, n) \cup
    { ToolAnswer(Json, JsonText(List(l))) : l \in StationLists(city, date) }
    \cup
    IF EveryAnswer(date)
    THEN { ToolAnswer(Json, JsonText(Dict([stations |-> List(<<>>)]))) }
    ELSE {}

\* an itinerary list of n itineraries
Itineraries(n) == [i \in 1..n |-> Dict([flight_no |-> Str(<<"F", Num(i)>>)])]

\* searchFlightItineraries: an object holding the summary text, a plain
\* text, a list of itineraries, an empty list, a long list of itineraries,
\* an object holding one, and the text null
FlightResponses(date) ==
    FailingResponses(date, 1) \cup
    { ToolAnswer(Json, JsonText(Dict([code |-> Str(<<"200">>),
                                      data |-> Str(<<"itineraries text">>)]))),
      ToolAnswer(Sse, JsonText(List(<<Dict([flight_no |-> Str(<<"CA1">>)]),
                                      Dict([flight_no |-> Str(<<"MU2">>)])>>))) }
    \cup
    IF EveryAnswer(date)
    THEN { ToolAnswer(Json, Str(<<"itineraries text">>)),
           ToolAnswer(Json, JsonText(List(<<>>))),
           ToolAnswer(Json, JsonText(List(Itineraries(MaxItineraries)))),
           ToolAnswer(Json, JsonText(Dict([itineraries |->
                                             List(Itineraries(MaxItineraries))]))),
           ToolAnswer(Json, JsonText(None)) }
    ELSE {}

\* a line of a text
L(k) == [k |-> k]
IsBlankLine(l) == l.k \in {"", " "}

RECURSIVE LStripLines(_)
LStripLines(t) == IF t # <<>> /\ IsBlankLine(Head(t)) THEN LStripLines(Tail(t)) ELSE t

RECURSIVE RStripLines(_)
RStripLines(t) ==
    IF t # <<>> /\ IsBlankLine(t[Len(t)])
    THEN RStripLines(SubSeq(t, 1, Len(t) - 1)) ELSE t

\* str.strip() on a text
StripText(t) == RStripLines(LStripLines(t))

\* chain.ainvoke: a text, a text of blanks, no text, or a raised error
LlmResponses(date) ==
    { [kind |-> "text", text |-> <<L("conclusion"), L("advice")>>],
      [kind |-> "raise", exc |-> Str(<<"RateLimitError">>)] }
    \cup
    IF EveryAnswer(date)
    THEN { [kind |-> "text", text |-> <<L(" "), L("conclusion"), L(" ")>>],
           [kind |-> "text", text |-> <<L(" ")>>],
           [kind |-> "text", text |-> <<>>] }
    ELSE {}

\* ------------------------------------------------------------ flight client

\* search_flight_itineraries once call_tool has answered with r; the summary
\* parse_variflight_summary extracts is read by nothing that is modelled and
\* is kept as the text it was parsed from
search_flight_itineraries(r) ==
    IF ~r.success THEN r
    ELSE
      LET result_obj == _extract_result_json(Get(r, "data"))
          raw_text == IF IsDict(result_obj) /\ IsStr(DGet(result_obj, "data"))
                      THEN DGet(result_obj, "data")
                      ELSE IF IsStr(result_obj) THEN result_obj
                      ELSE [t |-> "str", str_of |-> result_obj]
      IN  [success |-> TRUE, data |-> result_obj, raw_text |-> raw_text,
           summary |-> [parsed_from |-> raw_text], meta |-> Get(r, "meta")]

\* ------------------------------------------------------------ executor

\* the number of attempts get_transport_plan asks of the rail retry wrapper
retries == 3

\* (r.get("meta") or {}).get("status")
HttpStatusOf(r) ==
    IF "meta" \in DOMAIN r /\ "status" \in DOMAIN r.meta THEN r.meta.status ELSE None

\* the error dict built from an unsuccessful client result r
ApiError(r) ==
    [type |-> "api_error",
     message |-> Get(r, "error"),
     http_status |-> HttpStatusOf(r),
     raw |-> Get(r, "raw"),
     meta |-> Get(r, "meta")]

\* {"type": "exception", "message": str(e)}
ExceptionError(e) == [type |-> "exception", message |-> e]

\* the Success of _get_train_info_with_retry (lines 234-240)
TrainSuccess(r) ==
    [ok |-> TRUE, source |-> "12306-mcp", raw |-> Get(r, "data"),
     summary |-> Get(r, "summary"), meta |-> Get(r, "meta")]

\* the Failure of _get_train_info_with_retry (lines 246-250)
TrainFailure(last_error) ==
    [ok |-> FALSE, source |-> "12306-mcp",
     error |-> IF last_error # None THEN last_error
               ELSE [type |-> "unknown", message |-> Str(<<"train query failed">>)]]

\* dep_code of _get_flight_info: to_iata_city_code(x) or x
CodeOr(x) == Or(to_iata_city_code(x), Str(x))

IsCode3(c) == IsStr(c) /\ Len(c.s) = 3

FlightQuery(dep_code, arr_code, date) ==
    [depCityCode |-> dep_code, arrCityCode |-> arr_code, depDate |-> date]

\* _get_flight_info after the client has answered with r (lines 272-292)
FlightResult(r, dep_code, arr_code, date) ==
    IF ~r.success
    THEN [ok |-> FALSE, source |-> "variflight-mcp", error |-> ApiError(r),
          query |-> FlightQuery(dep_code, arr_code, date)]
    ELSE [ok |-> TRUE, source |-> "variflight-mcp", raw |-> Get(r, "data"),
          meta |-> Get(r, "meta"), query |-> FlightQuery(dep_code, arr_code, date)]

\* the invalid_input Failure of _get_flight_info (lines 256-268)
FlightInvalid(which, name) ==
    [ok |-> FALSE, source |-> "variflight-mcp",
     error |-> [type |-> "invalid_input", message |-> Str(<<which>> \o name)]]

\* the result gather records for a task that raised (line 168)
TaskException(e) ==
    [ok |-> FALSE, source |-> "agent", error |-> ExceptionError(e)]

Text(lines) == [t |-> "text", lines |-> lines]

\* _safe_json_loads(s): s is a Str; a dict, or whatever else the text encodes
_safe_json_loads(s) ==
    IF "enc" \in DOMAIN s THEN s.enc ELSE Dict(<<>>)

\* the fixed lines of the insufficient-data text (lines 329-332)
NextSteps ==
    <<L("next_steps"), L("1_retry_now"), L("2_check_cities_or_change_date"),
      L("3_only_train_or_only_flight")>>

\* a sufficiency test that takes an answered query for data
HasDataByOk(results) == results.train.ok \/ results.flight.ok

\* a sufficiency test that reads the key "data", which results do not hold
HasDataFromDataKey(results) ==
    \/ _is_nonempty_list(Get(results.train, "data"))
    \/ _is_nonempty_list(Get(results.flight, "data"))

\* the data-sufficiency test of _no_data_or_error_summary (lines 306-312)
HasData(results) ==
    \/ _is_nonempty_list(Get(results.train, "raw"))
    \/ _is_nonempty_list(Get(results.flight, "raw"))

\* an insufficient-data text that says nothing of the flight query
NoDataSummaryWithoutFlight(departure, destination, date, results, profile) ==
    IF _is_nonempty_list(Get(results.train, "raw"))
       \/ _is_nonempty_list(Get(results.flight, "raw"))
    THEN None
    ELSE Text(
           <<L("insufficient_data"),
             [k |-> "query", departure |-> departure, destination |-> destination,
              date |-> date]>>
           \o (IF "error" \in DOMAIN results.train
               THEN <<[k |-> "train_failed", error |-> results.train.error]>>
               ELSE <<L("train_no_data")>>)
           \o <<L("next_steps"), L("1_retry_now")>>)

\* an insufficient-data text that asks about the return trip whenever the
\* profile holds any text as its return date
NoDataSummaryAsksForAnyText(departure, destination, date, results, profile) ==
    IF _is_nonempty_list(Get(results.train, "raw"))
       \/ _is_nonempty_list(Get(results.flight, "raw"))
    THEN None
    ELSE Text(
           <<L("insufficient_data"),
             [k |-> "query", departure |-> departure, destination |-> destination,
              date |-> date]>>
           \o (IF "error" \in DOMAIN results.train
               THEN <<[k |-> "train_failed", error |-> results.train.error]>>
               ELSE <<L("train_no_data")>>)
           \o (IF "error" \in DOMAIN results.flight
               THEN <<[k |-> "flight_failed", error |-> results.flight.error]>>
               ELSE <<L("flight_no_data")>>)
           \o <<L("next_steps"), L("1_retry_now"), L("2_check_cities_or_change_date"),
                L("3_only_train_or_only_flight")>>
           \o (IF IsStr(DGet(_safe_json_loads(profile), "return_date"))
               THEN <<[k |-> "return_question",
                       return_date |-> DGet(_safe_json_loads(profile), "return_date")]>>
               ELSE <<>>))

\* _no_data_or_error_summary: None, or the insufficient-data text
_no_data_or_error_summary(departure, destination, date, results, profile) ==
    IF HasData(results) THEN None
    ELSE
      LET train == results.train
          flight == results.flight
          p == _safe_json_loads(profile)
      IN  Text(
            <<L("insufficient_data"),
              [k |-> "query", departure |-> departure, destination |-> destination,
               date |-> date]>>
            \o (IF "error" \in DOMAIN train
                THEN <<[k |-> "train_failed", error |-> train.error]>>
                ELSE <<L("train_no_data")>>)
            \o (IF "error" \in DOMAIN flight
                THEN <<[k |-> "flight_failed", error |-> flight.error]>>
                ELSE <<L("flight_no_data")>>)
            \o NextSteps
            \o (IF _is_valid_yyyy_mm_dd(DGet(p, "return_date"))
                THEN <<[k |-> "return_question",
                        return_date |-> DGet(p, "return_date")]>>
                ELSE <<>>))

\* raw[:10]
First10(xs) == SubSeq(xs, 1, IF Len(xs) < 10 THEN Len(xs) ELSE 10)

\* vv of _analyze_transport_options_text (lines 354-357)
CompactOne(v) ==
    IF "raw" \in DOMAIN v /\ IsList(v.raw)
    THEN [k \in DOMAIN v |-> IF k = "raw" THEN List(First10(v.raw.items)) ELSE v[k]]
    ELSE v

\* compact of _analyze_transport_options_text
Compact(transport_data) ==
    [k \in DOMAIN transport_data |-> CompactOne(transport_data[k])]

\* an analysis that takes a raised error for an answer without text
AnalysisTextSwallowsError(resp) ==
    IF resp.kind = "raise" THEN Text(<<L("model_returned_no_text")>>)
    ELSE LET text == StripText(resp.text)
         IN  IF text # <<>> THEN Text(text) ELSE Text(<<L("model_returned_no_text")>>)

\* what _analyze_transport_options_text returns once the chain has answered
AnalysisText(resp) ==
    IF resp.kind = "raise" THEN Text(<<[k |-> "analysis_failed", exc |-> resp.exc]>>)
    ELSE LET text == StripText(resp.text)
         IN  IF text # <<>> THEN Text(text) ELSE Text(<<L("model_returned_no_text")>>)

\* a part appended to parts: a text, or the blank line an empty str joins as
AsPart(lines) == IF lines = <<>> THEN <<L("")>> ELSE lines

\* a merge that joins the label and the text of a leg with an empty line
MergeWithBlankAfterLabel(outbound_text, return_text, outbound, inbound) ==
    Text(<<[k |-> "outbound_label", departure |-> outbound.departure,
            destination |-> outbound.destination, date |-> outbound.date],
           L("")>>
         \o (IF outbound_text # None /\ outbound_text.lines # <<>>
             THEN AsPart(StripText(outbound_text.lines))
             ELSE <<L("outbound_no_text")>>)
         \o (IF return_text # None /\ inbound # None
             THEN <<L(""),
                    [k |-> "inbound_label", departure |-> inbound.departure,
                     destination |-> inbound.destination, date |-> inbound.date],
                    L("")>>
                  \o (IF return_text.lines # <<>>
                      THEN AsPart(StripText(return_text.lines))
                      ELSE <<L("inbound_no_text")>>)
             ELSE <<>>))

\* a merge that puts the block of the return leg before that of the first leg
MergeInboundFirst(outbound_text, return_text, outbound, inbound) ==
    LET first == <<[k |-> "outbound_label", departure |-> outbound.departure,
                    destination |-> outbound.destination, date |-> outbound.date]>>
                  \o (IF outbound_text # None /\ outbound_text.lines # <<>>
                      THEN AsPart(StripText(outbound_text.lines))
                      ELSE <<L("outbound_no_text")>>)
        second == IF return_text # None /\ inbound # None
                  THEN <<[k |-> "inbound_label", departure |-> inbound.departure,
                          destination |-> inbound.destination, date |-> inbound.date]>>
                       \o (IF return_text.lines # <<>>
                           THEN AsPart(StripText(return_text.lines))
                           ELSE <<L("inbound_no_text")>>)
                       \o <<L("")>>
                  ELSE <<>>
    IN  Text(StripText(second \o first))

\* _merge_two_legs_text: outbound_text and return_text are Text or None,
\* outbound and inbound the (departure, destination, date) triples, or None
_merge_two_legs_text(outbound_text, return_text, outbound, inbound) ==
    LET first == <<[k |-> "outbound_label", departure |-> outbound.departure,
                    destination |-> outbound.destination, date |-> outbound.date]>>
                  \o (IF outbound_text # None /\ outbound_text.lines # <<>>
                      THEN AsPart(StripText(outbound_text.lines))
                      ELSE <<L("outbound_no_text")>>)
        second == IF return_text # None /\ inbound # None
                  THEN <<L(""),
                         [k |-> "inbound_label", departure |-> inbound.departure,
                          destination |-> inbound.destination, date |-> inbound.date]>>
                       \o (IF return_text.lines # <<>>
                           THEN AsPart(StripText(return_text.lines))
                           ELSE <<L("inbound_no_text")>>)
                  ELSE <<>>
    IN  Text(StripText(first \o second))

\* tool_return(ok, data, error, source): the JSON document; retrieved_at,
\* the clock's reading, is left out
tool_return(ok, data, error, source) ==
    [ok |-> ok, data |-> data, error |-> error, source |-> source]

Triple(departure, destination, date) ==
    [departure |-> departure, destination |-> destination, date |-> date]

\* ------------------------------------------------------------ request

LowerChar(c) ==
    CASE c = "A" -> "a" [] c = "B" -> "b" [] c = "C" -> "c" [] c = "D" -> "d"
      [] c = "E" -> "e" [] c = "F" -> "f" [] c = "G" -> "g" [] c = "H" -> "h"
      [] c = "I" -> "i" [] c = "J" -> "j" [] c = "K" -> "k" [] c = "L" -> "l"
      [] c = "M" -> "m" [] c = "N" -> "n" [] c = "O" -> "o" [] c = "P" -> "p"
      [] c = "Q" -> "q" [] c = "R" -> "r" [] c = "S" -> "s" [] c = "T" -> "t"
      [] c = "U" -> "u" [] c = "V" -> "v" [] c = "W" -> "w" [] c = "X" -> "x"
      [] c = "Y" -> "y" [] c = "Z" -> "z" [] OTHER -> c

\* str.lower()
Lower(s) == [i \in 1..Len(s) |-> LowerChar(s[i])]

OUTBOUND == <<"o", "u", "t", "b", "o", "u", "n", "d">>
INBOUND == <<"i", "n", "b", "o", "u", "n", "d">>
ROUNDTRIP == <<"r", "o", "u", "n", "d", "t", "r", "i", "p">>

\* (trip_type or "").strip().lower()
NormTripType(tt) == Lower(Strip(tt))

\* parse_transport_args_from_profile: p is the loaded profile, a dict
parse_transport_args_from_profile(p) ==
    LET departure_date == DGet(p, "departure_date")
        return_date == DGet(p, "return_date")
    IN  [departure |-> Str(_normalize_city(DGet(p, "depart_city"))),
         destination |-> Str(_normalize_city(DGet(p, "destination"))),
         departure_date |-> IF IsStr(departure_date) /\ "enc" \notin DOMAIN departure_date
                            THEN Str(Strip(departure_date.s)) ELSE None,
         return_date |-> IF IsStr(return_date) /\ "enc" \notin DOMAIN return_date
                         THEN Str(Strip(return_date.s)) ELSE None,
         people |-> DGet(p, "people"),
         days |-> DGet(p, "days"),
         budget_cny |-> DGet(p, "budget_cny"),
         preferences |-> DGet(p, "preferences")]

\* dep_date / ret_date of compare_transport (lines 470-471): a str
DateOf(v) == IF IsStr(v) THEN Str(Strip(v.s)) ELSE Str(<<>>)

\* a validation that stops at the first field it finds missing
MissingFirstOnly(tt, depart_city, destination, dep_date, ret_date) ==
    IF tt = INBOUND
    THEN IF depart_city = <<>> THEN <<"depart_city_for_return_arrival">>
         ELSE IF destination = <<>> THEN <<"destination_for_return_departure">>
         ELSE IF ret_date.s = <<>> THEN <<"return_date">>
         ELSE IF ~_is_valid_yyyy_mm_dd(ret_date) THEN <<"return_date_invalid">>
         ELSE <<>>
    ELSE IF depart_city = <<>> THEN <<"depart_city">>
         ELSE IF destination = <<>> THEN <<"destination">>
         ELSE IF dep_date.s = <<>> THEN <<"departure_date">>
         ELSE IF ~_is_valid_yyyy_mm_dd(dep_date) THEN <<"departure_date_invalid">>
         ELSE <<>>

\* the list `missing` of compare_transport (lines 477-516)
Missing(tt, depart_city, destination, dep_date, ret_date) ==
    IF tt = INBOUND
    THEN (IF depart_city = <<>> THEN <<"depart_city_for_return_arrival">> ELSE <<>>)
         \o (IF destination = <<>> THEN <<"destination_for_return_departure">> ELSE <<>>)
         \o (IF ret_date.s = <<>> THEN <<"return_date">>
             ELSE IF ~_is_valid_yyyy_mm_dd(ret_date) THEN <<"return_date_invalid">>
             ELSE <<>>)
    ELSE (IF depart_city = <<>> THEN <<"depart_city">> ELSE <<>>)
         \o (IF destination = <<>> THEN <<"destination">> ELSE <<>>)
         \o (IF dep_date.s = <<>> THEN <<"departure_date">>
             ELSE IF ~_is_valid_yyyy_mm_dd(dep_date) THEN <<"departure_date_invalid">>
             ELSE <<>>)

\* TransportDebug()
TransportDebug ==
    [train_ok |-> FALSE, flight_ok |-> FALSE, train_error |-> Str(<<>>),
     flight_error |-> Str(<<>>), train_raw_len |-> 0, flight_raw_len |-> 0,
     flight_query |-> None]

\* a debug filling whose ok flags follow the ok of the provider results
FillDebugOkFromResult(debug, results) ==
    IF debug = None THEN None
    ELSE [train_error |-> IF "error" \in DOMAIN results.train
                          THEN results.train.error ELSE Str(<<>>),
          flight_error |-> IF "error" \in DOMAIN results.flight
                           THEN results.flight.error ELSE Str(<<>>),
          train_raw_len |-> _extract_raw_len(results.train),
          flight_raw_len |-> _extract_raw_len(results.flight),
          train_ok |-> results.train.ok,
          flight_ok |-> results.flight.ok,
          flight_query |-> Get(results.flight, "query")]

\* the debug filling of get_transport_plan (lines 173-183)
FillDebug(debug, results) ==
    IF debug = None THEN None
    ELSE [train_error |-> IF "error" \in DOMAIN results.train
                          THEN results.train.error ELSE Str(<<>>),
          flight_error |-> IF "error" \in DOMAIN results.flight
                           THEN results.flight.error ELSE Str(<<>>),
          train_raw_len |-> _extract_raw_len(results.train),
          flight_raw_len |-> _extract_raw_len(results.flight),
          train_ok |-> _extract_raw_len(results.train) > 0,
          flight_ok |-> _extract_raw_len(results.flight) > 0,
          flight_query |-> Get(results.flight, "query")]

\* leg data that, with debug on, hands the options over in the debug
\* sub-object only
LegDataOptionsInDebug(text, q, options, debug_on, dbg) ==
    IF debug_on /\ dbg # None
    THEN [text |-> text, departure |-> q.departure, destination |-> q.destination,
          departure_date |-> q.date, options |-> None,
          debug |-> [dbg EXCEPT !.flight_query = options]]
    ELSE [text |-> text, departure |-> q.departure, destination |-> q.destination,
          departure_date |-> q.date, options |-> options]

\* outbound_data / inbound_data of compare_transport
LegData(text, q, options, debug_on, dbg) ==
    IF debug_on /\ dbg # None
    THEN [text |-> text, departure |-> q.departure, destination |-> q.destination,
          departure_date |-> q.date, options |-> options, debug |-> dbg]
    ELSE [text |-> text, departure |-> q.departure, destination |-> q.destination,
          departure_date |-> q.date, options |-> options]

\* a round trip that says nothing of the return date it did not use
ReturnNotesLeftOut(ret_date) == <<>>

\* the notes of a round trip without a usable return date (lines 619-622)
ReturnNotes(ret_date) ==
    IF ret_date.s # <<>> THEN <<L("note_return_date_not_a_date")>>
    ELSE <<L("note_tell_me_the_return_date")>>

\* ------------------------------------------------------------ inputs

Profile(depart_city, destination, departure_date, return_date) ==
    JsonText(Dict([depart_city |-> depart_city, destination |-> destination,
                   departure_date |-> departure_date, return_date |-> return_date]))

\* Requests of one leg, on the date for which the providers give every
\* answer: the destination is a city with an alias, a name no table knows of
\* two or of three characters, a city of the table with a name of three
\* characters, or a code in lower case.
LegRequests ==
    { [profile_json |-> Profile(Str(BeiJing), Str(d), Str(Date1), None),
       trip_type |-> OUTBOUND] :
        d \in {ShangHai \o Shi, HuoXing, SanYa1, HaErBin, <<"s", "h", "a">>} }

\* the profile_json strings of the modelled requests of any trip type: every
\* combination of present, absent and invalid fields, a text that is not
\* JSON, the empty text and a JSON text that is not an object
Profiles ==
    { Profile(c, d, dd, rd) :
        c \in {Str(BeiJing), Str(<<" ">>)},
        d \in {Str(<<" ">> \o ShangHai), None},
        dd \in {Str(Date2), Str(NotADate), None},
        rd \in {Str(Date3 \o <<" ">>), Str(NotADate), None} }
    \cup { Str(<<"{not json">>), Str(<<>>), JsonText(List(<<>>)) }

\* the trip_type strings of the modelled requests
TripTypes ==
    { OUTBOUND, INBOUND, ROUNDTRIP, <<" ">> \o Upper(OUTBOUND) \o <<"\n">>,
      <<"o", "n", "e", "w", "a", "y">>, <<>> }

\* ------------------------------------------------------------ state

VARIABLES
    profile_json,              \* compare_transport's arguments
    trip_type,
    enable_debug,
    MCP_12306_REMOTE_URL,      \* settings
    MCP_VARIFLIGHT_REMOTE_URL,
    pc,                        \* where compare_transport is
    leg,                       \* the get_transport_plan call that is running
    train,                     \* the task of _get_train_info_with_retry
    flight,                    \* the task of _get_flight_info
    results,                   \* results of get_transport_plan
    dbg_out,
    dbg_in,
    outbound_data,
    inbound_data,
    response,                  \* what compare_transport returned
    llm_input,                 \* compact, as last passed to the chain
    calls,                     \* per leg: what has been asked of whom
    chat                       \* the chat router: its session store, the clock,
                               \* its chat_message requests

\* what compare_transport reads and never writes: its arguments and the
\* settings; the chat router's state, which it has no access to, is left
\* alone with them
inputs ==
    <<profile_json, trip_type, enable_debug, MCP_12306_REMOTE_URL,
      MCP_VARIFLIGHT_REMOTE_URL, chat>>

vars ==
    <<profile_json, trip_type, enable_debug, MCP_12306_REMOTE_URL,
      MCP_VARIFLIGHT_REMOTE_URL, pc, leg, train, flight, results, dbg_out, dbg_in,
      outbound_data, inbound_data, response, llm_input, calls, chat>>

NoCalls == [flight_calls |-> 0, llm_calls |-> 0]

TrainIdle ==
    [pc |-> "idle", attempt |-> 0, last_error |-> None, from_code |-> None,
     to_code |-> None, first |-> None, dep_stations |-> None, dep_list |-> <<>>,
     arr_list |-> <<>>, di |-> 0, ti |-> 0, result |-> None, delays |-> <<>>,
     \* what the running attempt has done so far: the outcome of the
     \* representative-station query, the station lists asked for, the station
     \* pairs probed, the probes that answered with tickets
     stage1 |-> "none", station_calls |-> 0, probed |-> <<>>, hits |-> 0]

FlightIdle ==
    [pc |-> "idle", dep_code |-> None, arr_code |-> None, result |-> None,
     raised |-> None]

\* settings: both provider URLs configured, or both left empty
Settings ==
    { [rail |-> "http://12306-mcp/mcp", flight |-> "http://variflight-mcp/mcp"],
      [rail |-> "", flight |-> ""] }

\* --- the session store of the chat router (session_store.py, chat.py)

\* store = InMemorySessionStore(ttl_seconds=3600)
ttl_seconds == 3600

\* The router has just been loaded: the store is empty, the clock (seconds,
\* time.time()) stands at 0, no chat_message request has arrived.  Of a
\* request are kept: where it is, its session id and stripped message, the
\* SessionState it loaded, and the requests of the same session that were
\* between their load and their save when it loaded.
ChatStart ==
    [db |-> [sid \in 1..MaxSessions |-> None],
     created |-> 0,
     now |-> 0,
     ticks |-> 0,
     expired |-> {},
     reqs |-> [i \in 1..MaxRequests |->
                 [pc |-> "new", sid |-> 0, user_text |-> <<>>, state |-> None,
                  overlaps |-> {}]]]

\* the row save writes (lines 55-61): profile.to_dict() leaves out the
\* fields that are None, messages_to_dict wraps every message with its type
Row(profile, history, updated_at) ==
    [profile |-> Dict([k \in {f \in DOMAIN profile : profile[f] # None} |-> profile[k]]),
     history |-> [i \in 1..Len(history) |-> [type |-> history[i].k, data |-> history[i]]],
     updated_at |-> updated_at]

\* the SessionState load returns for a live row (lines 45-51):
\* UserProfile(**profile_dict) with None for the fields left out,
\* messages_from_dict(history_dicts).  Of the fields of UserProfile the two
\* that the modelled messages speak of are kept.
SessionState(row) ==
    [profile |-> [f \in {"depart_city", "destination"} |->
                    IF f \in DOMAIN row.profile.d THEN row.profile.d[f] ELSE None],
     history |-> [i \in 1..Len(row.history) |-> row.history[i].data],
     updated_at |-> row.updated_at]

\* run_one_turn (chat_runtime.py lines 48-86): the profile is merged with
\* what the extractor found in user_text (a field that is None is skipped),
\* and the new history is the messages the agent returns (the history, the
\* two system messages, the user's message, the assistant's), or, when the
\* agent returns an output only, the history with the user's message and the
\* output
run_one_turn(profile, history, user_text, answer) ==
    LET update == IF user_text = <<"g", "o">>
                  THEN [destination |-> Str(ShangHai), depart_city |-> None]
                  ELSE [destination |-> None, depart_city |-> None]
        merged == [f \in DOMAIN profile |->
                     IF update[f] # None THEN update[f] ELSE profile[f]]
        human == [k |-> "human", content |-> user_text]
    IN  [profile |-> merged,
         history |->
           IF answer = "messages"
           THEN history \o <<[k |-> "system", content |-> <<"today">>],
                             [k |-> "system", content |-> <<"profile">>,
                              profile |-> merged],
                             human,
                             [k |-> "ai", content |-> <<"reply to ">> \o user_text]>>
           ELSE history \o <<human,
                             [k |-> "system", content |-> <<"reply to ">> \o user_text]>>]

\* compare_transport has been called and has not run yet
Called ==
    /\ chat = ChatStart
    /\ pc = "start"
    /\ leg = None
    /\ train = TrainIdle
    /\ flight = FlightIdle
    /\ results = None
    /\ dbg_out = None
    /\ dbg_in = None
    /\ outbound_data = None
    /\ inbound_data = None
    /\ response = None
    /\ llm_input = None
    /\ calls = [outbound |-> NoCalls, inbound |-> NoCalls]

\* a request of one leg, with every answer of the providers
Init ==
    /\ \E rq \in LegRequests :
         profile_json = rq.profile_json /\ trip_type = rq.trip_type
    /\ enable_debug \in BOOLEAN
    /\ \E st \in Settings :
         MCP_12306_REMOTE_URL = st.rail /\ MCP_VARIFLIGHT_REMOTE_URL = st.flight
    /\ Called

\* a request of one leg between two cities of many stations
InitProbe ==
    /\ profile_json = Profile(Str(BeiJing), Str(ShangHai), Str(Date4), None)
    /\ trip_type = OUTBOUND
    /\ enable_debug \in BOOLEAN
    /\ MCP_12306_REMOTE_URL = "http://12306-mcp/mcp"
    /\ MCP_VARIFLIGHT_REMOTE_URL = "http://variflight-mcp/mcp"
    /\ Called

\* a request of any trip type and profile
InitRequest ==
    /\ profile_json \in Profiles
    /\ trip_type \in TripTypes
    /\ enable_debug \in BOOLEAN
    /\ MCP_12306_REMOTE_URL = "http://12306-mcp/mcp"
    /\ MCP_VARIFLIGHT_REMOTE_URL = "http://variflight-mcp/mcp"
    /\ Called

\* the request, as compare_transport reads it (lines 458-471)
Tt == NormTripType(trip_type)
Args == parse_transport_args_from_profile(_safe_json_loads(profile_json))
depart_city == _normalize_city(Args.departure)
destination == _normalize_city(Args.destination)
dep_date == DateOf(Args.departure_date)
ret_date == DateOf(Args.return_date)

\* ------------------------------------------------------------ one leg

\* the task of _get_train_info_with_retry at its first await
TrainStart ==
    [TrainIdle EXCEPT !.pc = "codes", !.attempt = 1]

\* the task of _get_flight_info at its first await, or done (lines 253-270)
FlightStart(q) ==
    LET dep_code == CodeOr(q.departure)
        arr_code == CodeOr(q.destination)
    IN  IF ~IsCode3(dep_code)
        THEN [FlightIdle EXCEPT !.pc = "done",
                                !.result = FlightInvalid("departure", q.departure)]
        ELSE IF ~IsCode3(arr_code)
        THEN [FlightIdle EXCEPT !.pc = "done",
                                !.result = FlightInvalid("destination", q.destination)]
        ELSE [FlightIdle EXCEPT !.pc = "call", !.dep_code = dep_code,
                                !.arr_code = arr_code]

\* a leg that is always queried in the profile's own direction
StartLegUnswapped(name, q) ==
    /\ pc' = "leg"
    /\ leg' = [name |-> name, departure |-> depart_city,
               destination |-> destination, date |-> q.date]
    /\ train' = TrainStart
    /\ flight' = FlightStart(Triple(depart_city, destination, q.date))
    /\ results' = None
    /\ calls' = calls

\* get_transport_plan up to asyncio.gather (lines 149-164)
StartLeg(name, q) ==
    /\ pc' = "leg"
    /\ leg' = [name |-> name, departure |-> q.departure,
               destination |-> q.destination, date |-> q.date]
    /\ train' = TrainStart
    /\ flight' = FlightStart(q)
    /\ results' = None
    /\ calls' = calls

\* --- the rail task: _get_train_info_with_retry around query_12306_trains

\* the locals of query_12306_trains are gone once it has returned or raised
Returned(tr) ==
    [tr EXCEPT !.from_code = None, !.to_code = None, !.first = None,
               !.dep_stations = None, !.dep_list = <<>>, !.arr_list = <<>>,
               !.di = 0, !.ti = 0]

\* a wrapper that keeps the error of the first attempt that failed
TrainFailedKeepsFirst(tr, last_error) ==
    [Returned(tr) EXCEPT !.pc = "sleep",
                         !.last_error = IF tr.last_error # None THEN tr.last_error
                                        ELSE last_error,
                         !.delays = Append(tr.delays, 4 * tr.attempt)]

\* a wrapper that pauses for the same 0.4 s after every failed attempt
TrainFailedFlatDelay(tr, last_error) ==
    [Returned(tr) EXCEPT !.pc = "sleep", !.last_error = last_error,
                         !.delays = Append(tr.delays, 4)]

\* The attempt failed with last_error: asyncio.sleep(0.4 * attempt) is
\* awaited (lines 224-232 and 242-244); delays are in tenths of a second.
TrainFailed(tr, last_error) ==
    [Returned(tr) EXCEPT !.pc = "sleep", !.last_error = last_error,
                         !.delays = Append(tr.delays, 4 * tr.attempt)]

\* a wrapper that takes an empty list for a failed attempt
TrainReturnedRetryEmpty(tr, r) ==
    IF ~r.success \/ ~Truthy(Get(r, "data"))
    THEN [Returned(tr) EXCEPT !.pc = "sleep", !.last_error = ApiError(r),
                              !.delays = Append(tr.delays, 4 * tr.attempt)]
    ELSE [Returned(tr) EXCEPT !.pc = "done", !.result = TrainSuccess(r)]

\* query_12306_trains returned r to the retry wrapper (lines 221-240)
TrainReturned(tr, r) ==
    IF ~r.success THEN TrainFailed(tr, ApiError(r))
    ELSE [Returned(tr) EXCEPT !.pc = "done", !.result = TrainSuccess(r)]

\* the POST raised: _rpc raises only once a base URL is configured
Raised(base_url, resp) == base_url # "" /\ resp.kind = "raise"

\* the answer _rpc reads when no POST raised
Answer(resp) ==
    IF resp.kind = "raise" THEN HttpResponse(200, "text/html", Str(<<>>)) ELSE resp

\* query_12306_trains from the answer of get-station-code-of-citys to the
\* await of the representative-station _get_tickets (lines 37-100)
AfterCodes(tr, codes, departure_, destination_) ==
    LET codes_result == _extract_result_json(Get(codes, "data"))
        from_code == FromCode(codes_result, departure_)
        to_code == ToCode(codes_result, destination_)
    IN  IF ~codes.success THEN TrainReturned(tr, codes)
        ELSE IF ~IsDict(codes_result)
        THEN TrainReturned(tr,
                 [success |-> FALSE,
                  error |-> Str(<<"station codes: unexpected format">>),
                  raw |-> codes_result, meta |-> Get(codes, "meta")])
        ELSE IF ~Truthy(from_code) \/ ~Truthy(to_code)
        THEN TrainReturned(tr,
                 [success |-> FALSE,
                  error |-> Str(<<"cannot resolve representative station_code">>),
                  raw |-> codes_result, meta |-> Get(codes, "meta")])
        ELSE [tr EXCEPT !.pc = "tickets", !.from_code = from_code, !.to_code = to_code]

TrainCodes ==
    /\ pc = "leg"
    /\ train.pc = "codes"
    /\ \E resp \in CodesResponses(leg.departure, leg.destination, leg.date, train.attempt) :
         train' =
           IF Raised(MCP_12306_REMOTE_URL, resp)
           THEN TrainFailed(train, ExceptionError(resp.exc))
           ELSE AfterCodes(train,
                    call_tool(MCP_12306_REMOTE_URL, "get-station-code-of-citys",
                              [citys |-> <<leg.departure, leg.destination>>],
                              Answer(resp)),
                    leg.departure, leg.destination)
    /\ UNCHANGED <<inputs, pc, leg, flight, results, dbg_out, dbg_in, outbound_data,
                   inbound_data, response, llm_input, calls>>

TicketsArgs(fc, tc, date) ==
    [date |-> date, fromStation |-> fc, toStation |-> tc, format |-> "json"]

\* query_12306_trains from the answer first of the representative-station
\* _get_tickets to the await of the departure city's stations (lines 100-109)
AfterStage1(tr, first) ==
    IF ~first.success THEN TrainReturned(tr, first)
    ELSE IF Truthy(first.data)
    THEN TrainReturned(tr, WithFallback(first, "representative_station"))
    ELSE [tr EXCEPT !.pc = "dep_stations", !.first = first, !.station_calls = 1]

\* what the representative-station query answered: it failed, or it gave a
\* list with tickets ("data") or without ("empty")
Stage1Kind(first) ==
    IF ~first.success THEN "failed"
    ELSE IF Len(first.data.items) > 0 THEN "data" ELSE "empty"

TrainStage1 ==
    /\ pc = "leg"
    /\ train.pc = "tickets"
    /\ \E resp \in TicketsResponses(leg.date, train.attempt) :
         train' =
           IF Raised(MCP_12306_REMOTE_URL, resp)
           THEN TrainFailed([train EXCEPT !.stage1 = "failed"], ExceptionError(resp.exc))
           ELSE
             LET first == _get_tickets(
                              call_tool(MCP_12306_REMOTE_URL, "get-tickets",
                                        TicketsArgs(train.from_code, train.to_code,
                                                    leg.date),
                                        Answer(resp)),
                              train.from_code, train.to_code, leg.date)
             IN  AfterStage1([train EXCEPT !.stage1 = Stage1Kind(first)], first)
    /\ UNCHANGED <<inputs, pc, leg, flight, results, dbg_out, dbg_in, outbound_data,
                   inbound_data, response, llm_input, calls>>

\* get-stations-code-in-city of the departure city answered (line 109), then
\* the destination's stations are asked for (line 110)
TrainDepStations ==
    /\ pc = "leg"
    /\ train.pc = "dep_stations"
    /\ \E resp \in StationsResponses(leg.departure, leg.date, train.attempt) :
         train' =
           IF Raised(MCP_12306_REMOTE_URL, resp)
           THEN TrainFailed(train, ExceptionError(resp.exc))
           ELSE [train EXCEPT
                   !.pc = "arr_stations",
                   !.station_calls = 2,
                   !.dep_stations =
                       call_tool(MCP_12306_REMOTE_URL, "get-stations-code-in-city",
                                 [city |-> leg.departure], Answer(resp))]
    /\ UNCHANGED <<inputs, pc, leg, flight, results, dbg_out, dbg_in, outbound_data,
                   inbound_data, response, llm_input, calls>>

\* The nested loops go on from (di, ti): the next pair NextPair finds is
\* probed, or the empty stage-1 result is returned when the loops end
\* (lines 126-142).
ProbeFrom(tr, dep_list, arr_list, di, ti) ==
    LET next == NextPair(dep_list, arr_list, di, ti)
    IN  IF next = <<0, 0>>
        THEN TrainReturned(tr,
                 WithFallback(tr.first, "tried_top5_city_stations_but_empty"))
        ELSE [tr EXCEPT !.pc = "probe", !.dep_list = dep_list, !.arr_list = arr_list,
                        !.di = next[1], !.ti = next[2],
                        !.probed = Append(tr.probed,
                                          <<_pick_station_code(dep_list[next[1]]),
                                            _pick_station_code(arr_list[next[2]])>>)]

\* query_12306_trains from the answer of the destination's stations to the
\* first probe (lines 110-134)
AfterStations(tr, dep_stations, arr_stations) ==
    LET dep_list == _extract_result_json(Get(dep_stations, "data"))
        arr_list == _extract_result_json(Get(arr_stations, "data"))
    IN  IF ~dep_stations.success \/ ~arr_stations.success
        THEN TrainReturned(tr, WithFallback(tr.first, "failed_to_get_city_stations"))
        ELSE IF ~IsList(dep_list) \/ ~IsList(arr_list)
        THEN TrainReturned(tr, WithFallback(tr.first, "city_stations_format_invalid"))
        ELSE ProbeFrom(tr, Top5(dep_list.items), Top5(arr_list.items), 1, 1)

TrainArrStations ==
    /\ pc = "leg"
    /\ train.pc = "arr_stations"
    /\ \E resp \in StationsResponses(leg.destination, leg.date, train.attempt) :
         train' =
           IF Raised(MCP_12306_REMOTE_URL, resp)
           THEN TrainFailed(train, ExceptionError(resp.exc))
           ELSE AfterStations(train, train.dep_stations,
                    call_tool(MCP_12306_REMOTE_URL, "get-stations-code-in-city",
                              [city |-> leg.destination], Answer(resp)))
    /\ UNCHANGED <<inputs, pc, leg, flight, results, dbg_out, dbg_in, outbound_data,
                   inbound_data, response, llm_input, calls>>

\* a probe loop that returns the first probe that answered, and the last
\* probe's empty answer when the loops end
AfterProbeAnySuccess(tr, r) ==
    IF r.success
    THEN [Returned(tr) EXCEPT
            !.pc = "done",
            !.result = TrainSuccess(WithFallback(r, "tried_top5_city_stations"))]
    ELSE ProbeFrom(tr, tr.dep_list, tr.arr_list, tr.di, tr.ti + 1)

\* a probe loop that returns the answer of the last probe when the loops end
AfterProbeReturnsLast(tr, r) ==
    IF r.success /\ Truthy(Get(r, "data"))
    THEN [Returned(tr) EXCEPT
            !.pc = "done",
            !.result = TrainSuccess(WithFallback(r, "tried_top5_city_stations"))]
    ELSE IF r.success /\ NextPair(tr.dep_list, tr.arr_list, tr.di, tr.ti + 1) = <<0, 0>>
    THEN [Returned(tr) EXCEPT
            !.pc = "done",
            !.result = TrainSuccess(
                           WithFallback(r, "tried_top5_city_stations_but_empty"))]
    ELSE ProbeFrom(tr, tr.dep_list, tr.arr_list, tr.di, tr.ti + 1)

\* the answer r of a probe holds tickets
HasTickets(r) == r.success /\ IsList(Get(r, "data")) /\ Len(Get(r, "data").items) > 0

\* query_12306_trains from the answer r of the probe of pair (di, ti) to the
\* next probe or the return (lines 134-142)
AfterProbe(tr, r) ==
    IF r.success /\ Truthy(Get(r, "data"))
    THEN TrainReturned(tr, WithFallback(r, "tried_top5_city_stations"))
    ELSE ProbeFrom(tr, tr.dep_list, tr.arr_list, tr.di, tr.ti + 1)

TrainProbe ==
    /\ pc = "leg"
    /\ train.pc = "probe"
    /\ \E resp \in TicketsResponses(leg.date, train.attempt) :
         train' =
           IF Raised(MCP_12306_REMOTE_URL, resp)
           THEN TrainFailed(train, ExceptionError(resp.exc))
           ELSE
             LET fc == _pick_station_code(train.dep_list[train.di])
                 tc == _pick_station_code(train.arr_list[train.ti])
                 r == _get_tickets(
                          call_tool(MCP_12306_REMOTE_URL, "get-tickets",
                                    TicketsArgs(fc, tc, leg.date), Answer(resp)),
                          fc, tc, leg.date)
             IN  AfterProbe([train EXCEPT !.hits = IF HasTickets(r) THEN @ + 1 ELSE @], r)
    /\ UNCHANGED <<inputs, pc, leg, flight, results, dbg_out, dbg_in, outbound_data,
                   inbound_data, response, llm_input, calls>>

\* a wrapper whose loop runs once more than retries
TrainSleepOnceMore ==
    /\ pc = "leg"
    /\ train.pc = "sleep"
    /\ train' = IF train.attempt <= retries
                THEN [train EXCEPT !.pc = "codes", !.attempt = train.attempt + 1,
                                   !.stage1 = "none", !.station_calls = 0,
                                   !.probed = <<>>, !.hits = 0]
                ELSE [train EXCEPT !.pc = "done",
                                   !.result = TrainFailure(train.last_error)]
    /\ UNCHANGED <<inputs, pc, leg, flight, results, dbg_out, dbg_in, outbound_data,
                   inbound_data, response, llm_input, calls>>

\* asyncio.sleep returned: the next attempt, or the Failure once the
\* attempts are used up (lines 219, 246-250)
TrainSleep ==
    /\ pc = "leg"
    /\ train.pc = "sleep"
    /\ train' = IF train.attempt < retries
                THEN [train EXCEPT !.pc = "codes", !.attempt = train.attempt + 1,
                                   !.stage1 = "none", !.station_calls = 0,
                                   !.probed = <<>>, !.hits = 0]
                ELSE [train EXCEPT !.pc = "done",
                                   !.result = TrainFailure(train.last_error)]
    /\ UNCHANGED <<inputs, pc, leg, flight, results, dbg_out, dbg_in, outbound_data,
                   inbound_data, response, llm_input, calls>>

\* --- the flight task: _get_flight_info

\* a flight query that calls the provider once more after a first failure
FlightCallRetries ==
    /\ pc = "leg"
    /\ flight.pc = "call"
    /\ \E resp \in FlightResponses(leg.date) :
         LET r == call_tool(MCP_VARIFLIGHT_REMOTE_URL, "searchFlightItineraries",
                            FlightQuery(flight.dep_code, flight.arr_code, leg.date),
                            Answer(resp))
         IN  flight' =
               IF calls[leg.name].flight_calls = 0
                  /\ (Raised(MCP_VARIFLIGHT_REMOTE_URL, resp) \/ ~r.success)
               THEN flight
               ELSE IF Raised(MCP_VARIFLIGHT_REMOTE_URL, resp)
               THEN [flight EXCEPT !.pc = "done", !.raised = resp.exc]
               ELSE [flight EXCEPT
                       !.pc = "done",
                       !.result = FlightResult(search_flight_itineraries(r),
                                               flight.dep_code, flight.arr_code,
                                               leg.date)]
    /\ calls' = [calls EXCEPT ![leg.name].flight_calls = @ + 1]
    /\ UNCHANGED <<inputs, pc, leg, train, results, dbg_out, dbg_in, outbound_data,
                   inbound_data, response, llm_input>>

\* searchFlightItineraries answered or the POST raised (lines 270-292)
FlightCall ==
    /\ pc = "leg"
    /\ flight.pc = "call"
    /\ \E resp \in FlightResponses(leg.date) :
         flight' =
           IF Raised(MCP_VARIFLIGHT_REMOTE_URL, resp)
           THEN [flight EXCEPT !.pc = "done", !.raised = resp.exc]
           ELSE [flight EXCEPT
                   !.pc = "done",
                   !.result =
                       FlightResult(
                           search_flight_itineraries(
                               call_tool(MCP_VARIFLIGHT_REMOTE_URL,
                                         "searchFlightItineraries",
                                         FlightQuery(flight.dep_code, flight.arr_code,
                                                     leg.date),
                                         Answer(resp))),
                           flight.dep_code, flight.arr_code, leg.date)]
    /\ calls' = [calls EXCEPT ![leg.name].flight_calls = @ + 1]
    /\ UNCHANGED <<inputs, pc, leg, train, results, dbg_out, dbg_in, outbound_data,
                   inbound_data, response, llm_input>>

\* --- get_transport_plan after the gather, and compare_transport after it

\* results in which a failed rail query fails the flight result with it
GatheredFailsTogether(tr, fl) ==
    [train |-> tr.result,
     flight |-> IF fl.raised # None \/ ~tr.result.ok
                THEN [ok |-> FALSE, source |-> "agent",
                      error |-> ExceptionError(IF fl.raised # None THEN fl.raised
                                               ELSE Str(<<"cancelled">>))]
                ELSE fl.result]

\* results as filled from the gathered task results (lines 166-170)
Gathered(tr, fl) ==
    [train |-> tr.result,
     flight |-> IF fl.raised # None THEN TaskException(fl.raised) ELSE fl.result]

\* the response of compare_transport for a report (lines 624-660)
Report(tt, out_data, in_data, notes) ==
    LET merged_text ==
          IF tt = OUTBOUND
          THEN _merge_two_legs_text(Get(out_data, "text"), None,
                                    Triple(depart_city, destination, dep_date.s), None)
          ELSE IF tt = INBOUND
          THEN _merge_two_legs_text(Get(in_data, "text"), None,
                                    Triple(destination, depart_city, ret_date.s), None)
          ELSE _merge_two_legs_text(
                   Get(out_data, "text"),
                   IF in_data # None THEN Get(in_data, "text") ELSE None,
                   Triple(depart_city, destination, dep_date.s),
                   IF in_data # None
                   THEN Triple(destination, depart_city, ret_date.s) ELSE None)
        text == IF notes # <<>> THEN Text(merged_text.lines \o <<L("")>> \o notes)
                ELSE merged_text
    IN  tool_return(
            [ok |-> TRUE, source |-> "transport-exec",
             data |-> [text |-> text, trip_type |-> tt, outbound |-> out_data,
                       inbound |-> in_data, has_inbound |-> in_data # None]],
            None, None, "unknown")

\* compare_transport returns the report
Return(out_data, in_data, notes) ==
    /\ pc' = "done"
    /\ response' = Report(Tt, out_data, in_data, notes)
    /\ train' = TrainIdle
    /\ flight' = FlightIdle
    /\ UNCHANGED <<leg, calls>>

\* a round trip that gives up its return leg when the outbound leg has no data
PlanReturnedStopsWithoutData(analysis_text, options, dbg) ==
    LET data == LegData(analysis_text, leg, options, enable_debug, dbg)
    IN  IF leg.name = "outbound"
        THEN /\ outbound_data' = data
             /\ dbg_out' = dbg
             /\ UNCHANGED <<inbound_data, dbg_in>>
             /\ IF Tt = ROUNDTRIP /\ _is_valid_yyyy_mm_dd(ret_date) /\ HasData(options)
                THEN /\ StartLeg("inbound", Triple(destination, depart_city, ret_date.s))
                     /\ UNCHANGED response
                ELSE /\ Return(data, None,
                               IF Tt = ROUNDTRIP THEN ReturnNotes(ret_date) ELSE <<>>)
                     /\ results' = options
        ELSE /\ inbound_data' = data
             /\ dbg_in' = dbg
             /\ UNCHANGED <<outbound_data, dbg_out>>
             /\ Return(outbound_data, data, <<>>)
             /\ results' = options

\* get_transport_plan returned with analysis_text; compare_transport goes on
\* to the next leg or to the report (lines 541-660)
PlanReturned(analysis_text, options, dbg) ==
    LET data == LegData(analysis_text, leg, options, enable_debug, dbg)
    IN  IF leg.name = "outbound"
        THEN /\ outbound_data' = data
             /\ dbg_out' = dbg
             /\ UNCHANGED <<inbound_data, dbg_in>>
             /\ IF Tt = ROUNDTRIP /\ _is_valid_yyyy_mm_dd(ret_date)
                THEN /\ StartLeg("inbound", Triple(destination, depart_city, ret_date.s))
                     /\ UNCHANGED response
                ELSE /\ Return(data, None,
                               IF Tt = ROUNDTRIP THEN ReturnNotes(ret_date) ELSE <<>>)
                     /\ results' = options
        ELSE /\ inbound_data' = data
             /\ dbg_in' = dbg
             /\ UNCHANGED <<outbound_data, dbg_out>>
             /\ Return(outbound_data, data, <<>>)
             /\ results' = options

\* a gather that returns as soon as the rail task is done
RailDone == train.pc = "done"

\* asyncio.gather has returned: both tasks are done (line 164)
Joined == train.pc = "done" /\ flight.pc = "done"

\* Both tasks are done: results and debug are filled and the gate decides
\* between the insufficient-data text and the chain (lines 164-200).
Gather ==
    /\ pc = "leg"
    /\ Joined
    /\ LET options == Gathered(train, flight)
           dbg == FillDebug(IF leg.name = "outbound" THEN dbg_out ELSE dbg_in, options)
           analysis_text == _no_data_or_error_summary(leg.departure, leg.destination,
                                                      leg.date, options, profile_json)
       IN  IF analysis_text # None
           THEN /\ PlanReturned(analysis_text, options, dbg)
                /\ UNCHANGED llm_input
           ELSE /\ pc' = "llm"
                /\ results' = options
                /\ llm_input' = Compact(options)
                /\ calls' = [calls EXCEPT ![leg.name].llm_calls = @ + 1]
                /\ IF leg.name = "outbound"
                   THEN dbg_out' = dbg /\ UNCHANGED dbg_in
                   ELSE dbg_in' = dbg /\ UNCHANGED dbg_out
                /\ train' = TrainIdle
                /\ flight' = FlightIdle
                /\ UNCHANGED <<leg, outbound_data, inbound_data, response>>
    /\ UNCHANGED inputs

\* chain.ainvoke answered or raised (lines 389-402)
Summarize ==
    /\ pc = "llm"
    /\ \E resp \in LlmResponses(leg.date) :
         PlanReturned(AnalysisText(resp), results,
                      IF leg.name = "outbound" THEN dbg_out ELSE dbg_in)
    /\ UNCHANGED <<inputs, llm_input>>

\* compare_transport from its call to the first leg's gather, or to the
\* error it returns (lines 458-540, 560-570)
CompareTransport ==
    /\ pc = "start"
    /\ LET missing == Missing(Tt, depart_city, destination, dep_date, ret_date)
       IN  IF Tt \notin {OUTBOUND, INBOUND, ROUNDTRIP}
           THEN /\ response' = tool_return(
                        [ok |-> FALSE, source |-> "transport-exec",
                         error |-> [k |-> "illegal_trip_type", trip_type |-> Tt]],
                        None, None, "unknown")
                /\ pc' = "done"
                /\ UNCHANGED <<leg, train, flight, results, calls, dbg_out, dbg_in>>
           ELSE IF ~IsDict(_safe_json_loads(profile_json))
           THEN \* p.get raises AttributeError in parse_transport_args_from_profile
                \* (line 96), called outside the try of compare_transport
                /\ response' = [raised |-> Str(<<"AttributeError">>)]
                /\ pc' = "done"
                /\ UNCHANGED <<leg, train, flight, results, calls, dbg_out, dbg_in>>
           ELSE IF missing # <<>>
           THEN /\ response' = tool_return(
                        [ok |-> FALSE, source |-> "transport-exec",
                         error |-> [k |-> "missing_or_invalid", fields |-> missing]],
                        None, None, "unknown")
                /\ pc' = "done"
                /\ UNCHANGED <<leg, train, flight, results, calls, dbg_out, dbg_in>>
           ELSE /\ dbg_out' = IF enable_debug /\ Tt \in {OUTBOUND, ROUNDTRIP}
                              THEN TransportDebug ELSE None
                /\ dbg_in' = IF enable_debug /\ Tt \in {INBOUND, ROUNDTRIP}
                             THEN TransportDebug ELSE None
                /\ IF Tt = INBOUND
                   THEN StartLeg("inbound", Triple(destination, depart_city, ret_date.s))
                   ELSE StartLeg("outbound", Triple(depart_city, destination, dep_date.s))
                /\ UNCHANGED response
    /\ UNCHANGED <<inputs, outbound_data, inbound_data, llm_input>>

Next ==
    \/ CompareTransport
    \/ TrainCodes
    \/ TrainStage1
    \/ TrainDepStations
    \/ TrainArrStations
    \/ TrainProbe
    \/ TrainSleep
    \/ FlightCall
    \/ Gather
    \/ Summarize

Spec == Init /\ [][Next]_vars

SpecRequest == InitRequest /\ [][Next]_vars

SpecProbe == InitProbe /\ [][Next]_vars

\* --- the chat router

\* time passes
ClockTick ==
    /\ chat.ticks < MaxTicks
    /\ chat' = [chat EXCEPT !.ticks = @ + 1, !.now = @ + (ttl_seconds \div 2)]
    /\ UNCHANGED <<profile_json, trip_type, enable_debug, MCP_12306_REMOTE_URL,
                   MCP_VARIFLIGHT_REMOTE_URL, pc, leg, train, flight, results,
                   dbg_out, dbg_in, outbound_data, inbound_data, response,
                   llm_input, calls>>

\* start_chat: store.create() saves an empty session under a new id
\* (chat.py lines 21-24, session_store.py lines 30-33)
StartChat ==
    /\ chat.created < MaxSessions
    /\ chat' = [chat EXCEPT
                  !.created = @ + 1,
                  !.db[chat.created + 1] =
                      Row([depart_city |-> None, destination |-> None], <<>>,
                          chat.now)]
    /\ UNCHANGED <<profile_json, trip_type, enable_debug, MCP_12306_REMOTE_URL,
                   MCP_VARIFLIGHT_REMOTE_URL, pc, leg, train, flight, results,
                   dbg_out, dbg_in, outbound_data, inbound_data, response,
                   llm_input, calls>>

\* chat_message from its arrival to the call of run_one_turn (chat.py lines
\* 40-50) with store.load (session_store.py lines 35-51): no row or an
\* expired row, which is removed, ends the request with 404; a blank
\* message ends it with 400
ChatLoad(i) ==
    /\ chat.reqs[i].pc = "new"
    /\ i > 1 => chat.reqs[i - 1].pc # "new"
    /\ \E sid \in 1..MaxSessions, message \in {<<" ", "g", "o">>, <<"h", "i">>, <<" ">>} :
         LET row == chat.db[sid]
             gone == row # None /\ chat.now - row.updated_at > ttl_seconds
             user_text == Strip(message)
         IN  chat' =
               [chat EXCEPT
                  !.db[sid] = IF gone THEN None ELSE @,
                  !.expired = IF gone THEN @ \cup {sid} ELSE @,
                  !.reqs[i] =
                      [pc |-> IF row = None \/ gone THEN "404"
                              ELSE IF user_text = <<>> THEN "400"
                              ELSE "turn",
                       sid |-> sid,
                       user_text |-> user_text,
                       state |-> IF row = None \/ gone THEN None
                                 ELSE SessionState(row),
                       overlaps |-> {j \in 1..MaxRequests :
                                       /\ chat.reqs[j].pc = "turn"
                                       /\ chat.reqs[j].sid = sid}]]
    /\ UNCHANGED <<profile_json, trip_type, enable_debug, MCP_12306_REMOTE_URL,
                   MCP_VARIFLIGHT_REMOTE_URL, pc, leg, train, flight, results,
                   dbg_out, dbg_in, outbound_data, inbound_data, response,
                   llm_input, calls>>

\* run_one_turn has returned and chat_message saves what it returned
\* (chat.py lines 50-53, session_store.py lines 53-61)
ChatSave(i) ==
    /\ chat.reqs[i].pc = "turn"
    /\ \E answer \in {"messages", "output"} :
         LET rq == chat.reqs[i]
             turn == run_one_turn(rq.state.profile, rq.state.history,
                                  rq.user_text, answer)
         IN  chat' = [chat EXCEPT
                        !.db[rq.sid] = Row(turn.profile, turn.history, chat.now),
                        !.reqs[i].pc = "done"]
    /\ UNCHANGED <<profile_json, trip_type, enable_debug, MCP_12306_REMOTE_URL,
                   MCP_VARIFLIGHT_REMOTE_URL, pc, leg, train, flight, results,
                   dbg_out, dbg_in, outbound_data, inbound_data, response,
                   llm_input, calls>>

NextChat ==
    \/ ClockTick
    \/ StartChat
    \/ \E i \in 1..MaxRequests : ChatLoad(i)
    \/ \E i \in 1..MaxRequests : ChatSave(i)

\* the server has started and no tool call is under way
InitChat ==
    /\ profile_json = Profile(Str(BeiJing), Str(ShangHai), Str(Date4), None)
    /\ trip_type = OUTBOUND
    /\ enable_debug = FALSE
    /\ MCP_12306_REMOTE_URL = "http://12306-mcp/mcp"
    /\ MCP_VARIFLIGHT_REMOTE_URL = "http://variflight-mcp/mcp"
    /\ Called

\* the chat router alone: chat_message is a plain def, which the server runs
\* in its thread pool, so requests overlap; what the agent does within a
\* turn is left to its answer
SpecChat == InitChat /\ [][NextChat]_vars

\* a step of the rail task
RailStep ==
    \/ TrainCodes
    \/ TrainStage1
    \/ TrainDepStations
    \/ TrainArrStations
    \/ TrainProbe
    \/ TrainSleep

\* the event loop resumes the rail task whenever it is ready: a sleep ends,
\* and a POST is answered or raises within its timeout
FairSpec == Spec /\ WF_vars(RailStep)

\* --- the request's task is cancelled while it awaits the gather

\* A task of the gather when the gather is cancelled: asyncio.gather cancels
\* every task that is not done, and the task gets CancelledError at its
\* await. The handlers on its way are all `except Exception` (lines 242, 401
\* and 662, mcp_base.py lines 25, 38 and 69), which CancelledError, a
\* BaseException, passes.
CancelledTask(task) ==
    IF task.pc = "done" THEN task ELSE [task EXCEPT !.pc = "cancelled"]

\* a cancellation that the rail task's handler takes for one more failed
\* attempt, so that the task goes on to its pause and its next attempt
CancelSwallowedByRail ==
    /\ pc = "leg"
    /\ ~Joined
    /\ response = None
    /\ train' = IF train.pc = "done" THEN train
                ELSE [train EXCEPT !.pc = "sleep",
                                   !.last_error = ExceptionError(Str(<<"CancelledError">>))]
    /\ flight' = CancelledTask(flight)
    /\ response' = [raised |-> Str(<<"CancelledError">>)]
    /\ UNCHANGED <<inputs, pc, leg, results, dbg_out, dbg_in, outbound_data,
                   inbound_data, llm_input, calls>>

\* The task that runs the request is cancelled before the gather has
\* returned (line 164): both tasks are cancelled, the gather raises
\* CancelledError into get_transport_plan, which has no handler, and
\* compare_transport's `except Exception` (line 662) lets it pass to the
\* caller through _run_coro_sync (lines 52-67).
Cancel ==
    /\ pc = "leg"
    /\ ~Joined
    /\ train' = CancelledTask(train)
    /\ flight' = CancelledTask(flight)
    /\ response' = [raised |-> Str(<<"CancelledError">>)]
    /\ pc' = "done"
    /\ UNCHANGED <<inputs, leg, results, dbg_out, dbg_in, outbound_data,
                   inbound_data, llm_input, calls>>

NextCancel ==
    \/ Next
    \/ Cancel

\* a request of any trip type and profile whose task may be cancelled
SpecCancel == InitRequest /\ [][NextCancel]_vars

\* ------------------------------------------------------------ properties

Legs == {"outbound", "inbound"}

\* outbound_data / inbound_data: what compare_transport keeps of a finished leg
DataOf(n) == IF n = "outbound" THEN outbound_data ELSE inbound_data

\* the results the gate of leg n has seen, or None before its gather
OptionsOf(n) ==
    IF DataOf(n) # None THEN DataOf(n).options
    ELSE IF pc = "llm" /\ leg.name = n THEN results
    ELSE None

\* the number of items in the item list of a provider result r
Items(r) == IF "raw" \in DOMAIN r /\ r.raw.t = "list" THEN Len(r.raw.items) ELSE 0

HasItems(options) == Items(options.train) > 0 \/ Items(options.flight) > 0

\* the kinds of line the insufficient-data text is made of
TemplateKinds ==
    {"insufficient_data", "query", "train_failed", "train_no_data", "flight_failed",
     "flight_no_data", "next_steps", "1_retry_now", "2_check_cities_or_change_date",
     "3_only_train_or_only_flight", "return_question"}

\* text is the insufficient-data text: it begins with the marker and holds
\* template lines only
IsTemplate(text) ==
    /\ text.lines # <<>>
    /\ text.lines[1] = L("insufficient_data")
    /\ \A i \in 1..Len(text.lines) : text.lines[i].k \in TemplateKinds

\* C1: the summarizer of a leg is invoked only if the rail or the flight
\* result holds a non-empty item list; when neither does, it is invoked zero
\* times and the leg's text is the insufficient-data text.
C1_SummarizerOnlyWithItems ==
    \A n \in Legs :
      /\ calls[n].llm_calls > 0 => OptionsOf(n) # None /\ HasItems(OptionsOf(n))
      /\ DataOf(n) # None /\ ~HasItems(DataOf(n).options)
           => calls[n].llm_calls = 0 /\ IsTemplate(DataOf(n).text)

\* a leg ended whose rail query answered with no ticket and whose flight
\* query gave no list: no summarizer call, the insufficient-data text
C1_Witness ==
    \E n \in Legs :
      /\ DataOf(n) # None
      /\ DataOf(n).options.train.ok
      /\ ~HasItems(DataOf(n).options)
      /\ calls[n].llm_calls = 0
      /\ IsTemplate(DataOf(n).text)

\* C2: when both providers of a leg return a non-empty item list, the
\* summarizer is invoked exactly once for the leg and the insufficient-data
\* text is not used.
C2_BothHaveItems ==
    \A n \in Legs :
      /\ calls[n].llm_calls <= 1
      /\ OptionsOf(n) # None
         /\ Items(OptionsOf(n).train) > 0 /\ Items(OptionsOf(n).flight) > 0
           => /\ calls[n].llm_calls = 1
              /\ DataOf(n) # None => ~IsTemplate(DataOf(n).text)

\* a leg ended with tickets and itineraries, summarized once
C2_Witness ==
    \E n \in Legs :
      /\ DataOf(n) # None
      /\ Items(DataOf(n).options.train) > 0
      /\ Items(DataOf(n).options.flight) > 0
      /\ calls[n].llm_calls = 1
      /\ DataOf(n).text.lines = <<L("conclusion"), L("advice")>>

\* a provider result that holds data in any payload shape: a non-empty list,
\* an object, a text
HoldsData(r) == r.ok /\ Truthy(Get(r, "raw"))

\* C3: in every leg where at least one provider has data, the flight query
\* answered in whatever payload shape (text, object or list) next to an empty
\* or failed rail query included, the summarizer is invoked and the
\* insufficient-data text is not used.
C3_AnyPayloadShapeIsSummarized ==
    \A n \in Legs :
      DataOf(n) # None
      /\ (HoldsData(DataOf(n).options.train) \/ HoldsData(DataOf(n).options.flight))
        => calls[n].llm_calls = 1 /\ ~IsTemplate(DataOf(n).text)

\* text holds a line of kind k that reports error e
ReportsError(text, k, e) ==
    \E i \in 1..Len(text.lines) : text.lines[i] = [k |-> k, error |-> e]

HasLine(text, ks) == \E i \in 1..Len(text.lines) : text.lines[i].k \in ks

\* the status line of provider result r is in text: the failure with its
\* error, or no data
HasStatusLine(text, r, failed, no_data) ==
    IF "error" \in DOMAIN r THEN ReportsError(text, failed, r.error)
    ELSE HasLine(text, {no_data})

\* C4: when both providers of a leg return an empty or a failed result, the
\* leg is not summarized and its text is the insufficient-data text with the
\* rail status line, the flight status line (with the error when there is
\* one) and at least one next-step suggestion; the text is never blank.
C4_InsufficientDataText ==
    \A n \in Legs :
      DataOf(n) # None
      /\ ~HoldsData(DataOf(n).options.train) /\ ~HoldsData(DataOf(n).options.flight)
        => LET text == DataOf(n).text
               options == DataOf(n).options
           IN  /\ calls[n].llm_calls = 0
               /\ IsTemplate(text)
               /\ HasStatusLine(text, options.train, "train_failed", "train_no_data")
               /\ HasStatusLine(text, options.flight, "flight_failed", "flight_no_data")
               /\ HasLine(text, {"1_retry_now", "2_check_cities_or_change_date",
                                 "3_only_train_or_only_flight"})
               /\ \E i \in 1..Len(text.lines) : ~IsBlankLine(text.lines[i])

\* a leg ended with an empty rail answer and a failed flight query
C4_Witness ==
    \E n \in Legs :
      /\ DataOf(n) # None
      /\ DataOf(n).options.train.ok
      /\ Items(DataOf(n).options.train) = 0
      /\ "error" \in DOMAIN DataOf(n).options.flight
      /\ ReportsError(DataOf(n).text, "flight_failed", DataOf(n).options.flight.error)
      /\ HasLine(DataOf(n).text, {"train_no_data"})

\* compare_transport returned a report
IsReport == pc = "done" /\ "ok" \in DOMAIN response /\ response.ok.ok

\* the text field of the report
ReportText == response.ok.data.text

HTTP502 == Str(<<"HTTP ", StatusText(502)>>)

\* both queries of the finished leg d ended with an HTTP 502
Both502(d) ==
    /\ "error" \in DOMAIN d.options.train
    /\ d.options.train.error.message = HTTP502
    /\ "error" \in DOMAIN d.options.flight
    /\ d.options.flight.error.message = HTTP502

\* every leg of the request ended with an HTTP 502 of both providers
AllLegs502 ==
    /\ IsReport
    /\ \A n \in Legs : DataOf(n) # None => Both502(DataOf(n))

\* the text lists the rail and the flight failure of a finished leg
ListsBothFailures(text) ==
    \E n \in Legs :
      /\ DataOf(n) # None
      /\ ReportsError(text, "train_failed", DataOf(n).options.train.error)
      /\ ReportsError(text, "flight_failed", DataOf(n).options.flight.error)

NoSummarizerCall == \A n \in Legs : calls[n].llm_calls = 0

\* C5: when both providers return HTTP 502 for a request, the text of the
\* report begins with the label line of the leg, the marker of insufficient
\* data is the line after it, the text lists both failures and the
\* summarizer is invoked zero times.
C5_MarkerAfterLegLabel ==
    AllLegs502 =>
      /\ Len(ReportText.lines) >= 2
      /\ ReportText.lines[1].k = "outbound_label"
      /\ ReportText.lines[2] = L("insufficient_data")
      /\ ListsBothFailures(ReportText)
      /\ NoSummarizerCall

\* a round trip whose four queries ended with an HTTP 502
C5_Witness ==
    /\ AllLegs502
    /\ outbound_data # None
    /\ inbound_data # None
    /\ ReportText.lines[2] = L("insufficient_data")

\* C5 as stated: when both providers return HTTP 502 for a request, the text
\* of the report begins with the marker of insufficient data, lists both
\* failures, and the summarizer is invoked zero times.
C5_TextBeginsWithMarker ==
    AllLegs502 =>
      /\ ReportText.lines[1] = L("insufficient_data")
      /\ ListsBothFailures(ReportText)
      /\ NoSummarizerCall

\* the attempt the provider's answer behind error e was given in
StampOf(e) ==
    IF e.type = "exception" THEN e.message.s[2]
    ELSE IF IsStr(e.raw) THEN e.raw.s[2]
    ELSE IF "error" \in DOMAIN e.raw.d THEN e.raw.d.error.d.message.s[2]
    ELSE e.raw.d.note.s[2]

\* the attempts of the rail query that failed so far
FailedAttempts == Len(train.delays)

\* C6: a rail query whose attempts 1 and 2 fail (an unsuccessful answer or a
\* raised error) and whose attempt 3 succeeds ends in a Success; a rail query
\* whose 3 attempts all fail ends in a Failure whose error is the error of
\* the third attempt and of no attempt before it.
C6_ThirdAttemptDecides ==
    train.pc = "done" =>
      IF FailedAttempts < train.attempt
      THEN train.result.ok /\ "error" \notin DOMAIN train.result
      ELSE /\ train.attempt = 3
           /\ FailedAttempts = 3
           /\ ~train.result.ok
           /\ MCP_12306_REMOTE_URL # "" => StampOf(train.result.error) = Num(3)

\* the rail query ended in a Success at its third attempt
C6_Witness ==
    /\ train.pc = "done"
    /\ train.attempt = 3
    /\ FailedAttempts = 2
    /\ train.result.ok

\* C7: every rail query terminates: it makes at most 3 attempts, makes no
\* attempt after one that succeeded, and ends in a Success or in a Failure.
C7_RailQueryTerminates ==
    /\ [](train.attempt <= 3)
    /\ [][train.pc = "done" /\ leg' = leg /\ train'.pc # "idle" => train' = train]_vars
    /\ [](train.pc = "done" =>
            IF train.result.ok THEN "error" \notin DOMAIN train.result
            ELSE "error" \in DOMAIN train.result)
    /\ (pc = "leg" ~> train.pc = "done")

\* the rail query ended in a Failure after three attempts
C7_Witness ==
    /\ train.pc = "done"
    /\ train.attempt = 3
    /\ FailedAttempts = 3
    /\ ~train.result.ok

\* C8: the city-station probe is started (the station lists of the two
\* cities are asked for) when the representative-station query answered with
\* an empty list; when it held tickets or failed, no station list is asked
\* for and no pair is probed; the first probed pair that yields a non-empty
\* list is what is returned, and no pair is probed after it.
C8_ProbeAfterEmptyStage1 ==
    /\ train.stage1 = "empty" => train.station_calls >= 1
    /\ train.stage1 # "empty" => train.station_calls = 0 /\ train.probed = <<>>
    /\ train.hits <= 1
    /\ train.hits = 1 =>
         /\ train.pc = "done"
         /\ train.result.ok
         /\ Items(train.result) > 0
         /\ train.result.meta.fallback = "tried_top5_city_stations"
         /\ <<train.result.meta.fromStation, train.result.meta.toStation>>
              = train.probed[Len(train.probed)]
    /\ train.pc = "done" /\ train.result.ok =>
         /\ train.result.meta.fallback = "tried_top5_city_stations" => train.hits = 1
         /\ train.stage1 = "data" =>
              train.result.meta.fallback = "representative_station"

\* the second pair probed held tickets and was returned
C8_Witness ==
    /\ train.pc = "done"
    /\ train.stage1 = "empty"
    /\ train.hits = 1
    /\ Len(train.probed) = 2
    /\ Items(train.result) > 0

\* C9: when every probed station pair gave no ticket, the rail query returns
\* the empty result of the representative-station query: a Success of zero
\* items with the representative station codes and the date, marked with the
\* fallback strategy that was tried; no probe's answer is returned.
C9_ExhaustedProbeReturnsStage1 ==
    train.pc = "done" /\ train.result.ok /\ train.stage1 = "empty"
    /\ train.hits = 0 /\ train.probed # <<>>
      => /\ train.result.raw = List(<<>>)
         /\ train.result.meta.fromStation = StationOf(leg.departure, 0)
         /\ train.result.meta.toStation = StationOf(leg.destination, 0)
         /\ train.result.meta.date = leg.date
         /\ train.result.meta.fallback = "tried_top5_city_stations_but_empty"

\* every pair of the station lists was probed and none held tickets
C9_Witness ==
    /\ train.pc = "done"
    /\ train.result.ok
    /\ train.stage1 = "empty"
    /\ train.hits = 0
    /\ Len(train.probed) > 2
    /\ train.result.meta.fallback = "tried_top5_city_stations_but_empty"

\* C10: an answer with an HTTP status of 400 or more is a Failure of the
\* call; a parsed empty ticket list is a Success of zero items, which the
\* retry wrapper does not retry, which is not reported as an error, and
\* which the gate counts as no data.
C10_StatusAndEmptyList ==
    /\ train.dep_stations # None /\ train.dep_stations.success
         => train.dep_stations.meta.status_code < 400
    /\ flight.result # None /\ flight.result.ok
         => flight.result.meta.status_code < 400
    /\ train.first # None => train.first.success /\ train.first.data = List(<<>>)
    /\ train.pc = "sleep" /\ train.stage1 = "empty"
         => train.last_error.type = "exception"
    /\ train.pc = "done" /\ train.stage1 = "empty" /\ train.hits = 0
       /\ FailedAttempts < train.attempt
         => /\ train.result.ok
            /\ Items(train.result) = 0
            /\ "error" \notin DOMAIN train.result
    /\ \A n \in Legs :
         DataOf(n) # None /\ DataOf(n).options.train.ok
         /\ Items(DataOf(n).options.train) = 0
           => /\ ~HasLine(DataOf(n).text, {"train_failed"})
              /\ Items(DataOf(n).options.flight) = 0
                   => /\ calls[n].llm_calls = 0
                      /\ HasLine(DataOf(n).text, {"train_no_data"})

\* a leg ended whose rail query answered at once with an empty list and
\* whose flight query met an HTTP 502
C10_Witness ==
    \E n \in Legs :
      /\ DataOf(n) # None
      /\ DataOf(n).options.train.ok
      /\ Items(DataOf(n).options.train) = 0
      /\ "error" \in DOMAIN DataOf(n).options.flight
      /\ DataOf(n).options.flight.error.message = HTTP502
      /\ DataOf(n).options.flight.error.meta.status_code = 502
      /\ HasLine(DataOf(n).text, {"train_no_data"})
      /\ calls[n].llm_calls = 0

\* C11: whenever the resolver resolves the departure or the destination of a
\* leg to no IATA city code, the flight result is a Failure of kind
\* invalid_input and the flight provider is not called.
C11_UnresolvedNameIsInvalidInput ==
    pc = "leg" /\ (to_iata_city_code(leg.departure) = None
                   \/ to_iata_city_code(leg.destination) = None)
      => /\ flight.pc = "done"
         /\ ~flight.result.ok
         /\ flight.result.error.type = "invalid_input"
         /\ calls[leg.name].flight_calls = 0

\* the leg data compare_transport holds after the step, of the leg that runs
LegDataAfter == IF leg.name = "outbound" THEN outbound_data' ELSE inbound_data'

\* C12: within a leg a step of the rail query leaves the flight task as it
\* is and a step of the flight query leaves the rail task as it is, and the
\* results recorded in the leg outcome are what the rail query returned and
\* what the flight query returned or raised, whatever the other one did.
C12_ProviderIsolation ==
    /\ [][pc = "leg" /\ train.pc # "done" /\ train' # train => flight' = flight]_vars
    /\ [][pc = "leg" /\ flight.pc # "done" /\ flight' # flight => train' = train]_vars
    /\ [][pc = "leg" /\ train.pc = "done" /\ flight.pc = "done"
            => LET recorded == IF pc' = "llm" THEN results' ELSE LegDataAfter.options
               IN  /\ recorded.train = train.result
                   /\ recorded.flight =
                        IF flight.raised # None
                        THEN [ok |-> FALSE, source |-> "agent",
                              error |-> [type |-> "exception",
                                         message |-> flight.raised]]
                        ELSE flight.result]_vars
    /\ [][pc = "llm" => LegDataAfter.options = results]_vars

\* a leg ended whose rail query failed with a raised error at every attempt
\* and whose flight query returned its two itineraries
C12_Witness ==
    \E n \in Legs :
      /\ DataOf(n) # None
      /\ ~DataOf(n).options.train.ok
      /\ DataOf(n).options.train.error.type = "exception"
      /\ DataOf(n).options.flight.ok
      /\ Items(DataOf(n).options.flight) = 2

\* C13: under every interleaving of the rail and the flight task of a leg,
\* the gate, the summarizer call and the leg outcome come only after both
\* tasks are done: no step changes anything but the two tasks while one of
\* them is still running.
C13_JoinNotRace ==
    [][pc = "leg"
       /\ <<pc, leg, results, calls.outbound.llm_calls, calls.inbound.llm_calls,
            llm_input, outbound_data, inbound_data, dbg_out, dbg_in, response>>'
          # <<pc, leg, results, calls.outbound.llm_calls, calls.inbound.llm_calls,
              llm_input, outbound_data, inbound_data, dbg_out, dbg_in, response>>
         => /\ train.pc = "done"
            /\ train.result # None
            /\ flight.pc = "done"
            /\ flight.result # None \/ flight.raised # None]_vars

\* the flight query has returned and waits while the rail query sleeps
\* before its second attempt: nothing of the leg is decided yet
C13_Witness ==
    /\ pc = "leg"
    /\ flight.pc = "done"
    /\ flight.result # None
    /\ train.pc = "sleep"
    /\ train.attempt = 1
    /\ results = None
    /\ outbound_data = None
    /\ NoSummarizerCall

\* the request's trip type is legal and its profile is a JSON object
WellFormedRequest ==
    /\ "enc" \in DOMAIN profile_json
    /\ IsDict(profile_json.enc)
    /\ NormTripType(trip_type) \in {OUTBOUND, INBOUND, ROUNDTRIP}

\* field k of the profile holds no name
NoName(k) ==
    LET v == DGet(profile_json.enc, k)
    IN  ~IsStr(v) \/ Strip(v.s) = <<>>

\* field k of the profile holds a text that is no YYYY-MM-DD date
NotDate(k) ==
    LET v == DGet(profile_json.enc, k)
    IN  IsStr(v) /\ Strip(v.s) # <<>> /\ ~YYYY_MM_DD_RE(Strip(v.s))

\* the required fields the request violates, as the error names them
Violated ==
    IF NormTripType(trip_type) = INBOUND
    THEN {f \in {"depart_city_for_return_arrival"} : NoName("depart_city")}
         \cup {f \in {"destination_for_return_departure"} : NoName("destination")}
         \cup {f \in {"return_date"} : NoName("return_date")}
         \cup {f \in {"return_date_invalid"} : NotDate("return_date")}
    ELSE {f \in {"depart_city"} : NoName("depart_city")}
         \cup {f \in {"destination"} : NoName("destination")}
         \cup {f \in {"departure_date"} : NoName("departure_date")}
         \cup {f \in {"departure_date_invalid"} : NotDate("departure_date")}

\* compare_transport returned the error of a failed validation
IsValidationError ==
    /\ pc = "done"
    /\ "ok" \in DOMAIN response
    /\ ~response.ok.ok
    /\ response.ok.error.k = "missing_or_invalid"

\* nothing was asked of a provider or of the summarizer
NothingCalled ==
    /\ leg = None
    /\ train = TrainIdle
    /\ flight = FlightIdle
    /\ llm_input = None
    /\ \A n \in Legs : calls[n].flight_calls = 0 /\ calls[n].llm_calls = 0

\* C14: for every legal trip type and every combination of missing or
\* invalid required fields, compare_transport returns one error that names
\* every violated field, each once, and nothing is asked of a provider or
\* of the summarizer before it; a request that violates none gets no such
\* error.
C14_ValidationNamesEveryField ==
    pc = "done" /\ WellFormedRequest =>
      IF Violated # {}
      THEN /\ IsValidationError
           /\ {response.ok.error.fields[i] : i \in DOMAIN response.ok.error.fields}
                = Violated
           /\ Len(response.ok.error.fields) = Cardinality(Violated)
           /\ NothingCalled
      ELSE ~IsValidationError

\* an inbound request without cities and with a return date that is no
\* date is refused with its three violations
C14_Witness ==
    /\ IsValidationError
    /\ NormTripType(trip_type) = INBOUND
    /\ response.ok.error.fields
         = <<"depart_city_for_return_arrival", "destination_for_return_departure",
             "return_date_invalid">>
    /\ NothingCalled

\* the return date of the profile is a YYYY-MM-DD date
ReturnDateIsDate ==
    LET v == DGet(profile_json.enc, "return_date")
    IN  IsStr(v) /\ YYYY_MM_DD_RE(Strip(v.s))

\* a round trip whose outbound fields are all valid
ValidRoundTrip ==
    WellFormedRequest /\ NormTripType(trip_type) = ROUNDTRIP /\ Violated = {}

ReturnDateNotes == {"note_return_date_not_a_date", "note_tell_me_the_return_date"}

\* C15: a round trip with valid outbound fields never fails because of its
\* return date.  When the return date is absent or no YYYY-MM-DD date, only
\* the outbound leg is queried and the response is a report with the
\* outbound outcome, no inbound outcome and a note on the return date
\* appended to the text; when it is valid the inbound leg is queried and its
\* outcome is in the report.
C15_RoundTripDegrades ==
    /\ ValidRoundTrip /\ ~ReturnDateIsDate =>
         /\ pc # "start" => leg.name = "outbound"
         /\ inbound_data = None
         /\ calls.inbound = NoCalls
    /\ pc = "done" /\ ValidRoundTrip =>
         /\ IsReport
         /\ response.ok.data.trip_type = ROUNDTRIP
         /\ response.ok.data.outbound = outbound_data
         /\ outbound_data # None
         /\ IF ReturnDateIsDate
            THEN /\ inbound_data # None
                 /\ response.ok.data.inbound = inbound_data
                 /\ response.ok.data.has_inbound
                 /\ inbound_data.departure_date = Strip(DGet(profile_json.enc, "return_date").s)
                 /\ ~HasLine(ReportText, ReturnDateNotes)
            ELSE /\ response.ok.data.inbound = None
                 /\ ~response.ok.data.has_inbound
                 /\ Len(ReportText.lines) > 2
                 /\ ReportText.lines[Len(ReportText.lines)].k \in ReturnDateNotes
                 /\ ReportText.lines[Len(ReportText.lines) - 1] = L("")

\* a round trip whose return date is no date ended with the outbound
\* outcome and the note
C15_Witness ==
    /\ pc = "done"
    /\ ValidRoundTrip
    /\ NotDate("return_date")
    /\ IsReport
    /\ response.ok.data.inbound = None
    /\ HasLine(ReportText, {"note_return_date_not_a_date"})

\* C16: for every profile_json (malformed JSON and JSON that is no object
\* included), every trip_type and every behaviour of the providers and of
\* the summarizer, no exception escapes compare_transport: what it ends
\* with is a structured response.
C16_NoExceptionEscapes ==
    pc = "done" => "raised" \notin DOMAIN response /\ "ok" \in DOMAIN response

\* C17: the response of compare_transport carries the outcome at its top
\* level: when a report was produced its text, trip type and leg outcomes
\* are the response's data, and when the trip type is illegal or the
\* validation fails the error message is the response's error.
C17_TopLevelOkDataError ==
    pc = "done" /\ "ok" \in DOMAIN response =>
      IF outbound_data # None \/ inbound_data # None
      THEN /\ response.data # None
           /\ response.data.text.lines # <<>>
           /\ response.error = None
      ELSE /\ response.error # None
           /\ response.data = None

\* C18: the text the merger gives is the labelled block of the leg passed first
\* (its label line, then the leg's text line for line), followed, exactly when
\* a return leg is passed, by an empty line and the labelled block of the
\* return leg; in a round trip the outbound block comes before the inbound
\* block and no line of one lies in the other.  The notes compare_transport
\* appends after the merge are set aside.
MergedLines ==
    LET lines == ReportText.lines
        n == Len(lines)
    IN  IF n >= 2 /\ lines[n].k \in ReturnDateNotes THEN SubSeq(lines, 1, n - 2)
        ELSE lines

LabelOf(kind, data) ==
    [k |-> kind, departure |-> data.departure, destination |-> data.destination,
     date |-> data.departure_date]

C18_MergeOrderAndLabels ==
    IsReport =>
      LET first == IF Tt = INBOUND THEN inbound_data ELSE outbound_data
          second == IF Tt = ROUNDTRIP THEN inbound_data ELSE None
      IN  MergedLines
            = <<LabelOf("outbound_label", first)>> \o first.text.lines
              \o (IF second # None
                  THEN <<L(""), LabelOf("inbound_label", second)>> \o second.text.lines
                  ELSE <<>>)

C18_Witness ==
    /\ IsReport
    /\ Tt = ROUNDTRIP
    /\ inbound_data # None
    /\ calls.outbound.llm_calls > 0
    /\ calls.inbound.llm_calls > 0
    /\ outbound_data.text # inbound_data.text
    /\ Len(inbound_data.text.lines) > 1

\* C20: for a city name N of the static table, the resolver gives N followed by
\* the administrative suffix the code it gives N: the code a leg's flight
\* query resolves its destination to is the code of the name without suffix.
C20_SuffixVariantResolvesAlike ==
    \A N \in {BeiJing, ShangHai} :
       pc = "leg" /\ leg.destination = N \o Shi
         => /\ to_iata_city_code(leg.destination) = to_iata_city_code(N)
            /\ flight.pc = "call" => flight.arr_code = CITY_CODE_MAP(N)

\* leg data without its debug sub-object
Erase(data) ==
    IF data = None THEN None ELSE [k \in DOMAIN data \ {"debug"} |-> data[k]]

\* a response without the debug sub-objects of its legs
ErasedResponse(r) ==
    IF "ok" \in DOMAIN r /\ r.ok.ok
    THEN [r EXCEPT !.ok.data.outbound = Erase(@), !.ok.data.inbound = Erase(@)]
    ELSE r

\* what a return of compare_transport does when no debug is kept
ReturnNoDebug(out_data, in_data, notes) ==
    /\ pc' = "done"
    /\ ErasedResponse(response') = Report(Tt, out_data, in_data, notes)
    /\ train' = TrainIdle
    /\ flight' = FlightIdle
    /\ UNCHANGED <<leg, calls>>

\* what the return of get_transport_plan leads to when no debug is kept
PlanReturnedNoDebug(analysis_text, options) ==
    LET data == LegData(analysis_text, leg, options, FALSE, None)
    IN  IF leg.name = "outbound"
        THEN /\ Erase(outbound_data') = data
             /\ Erase(inbound_data') = Erase(inbound_data)
             /\ IF Tt = ROUNDTRIP /\ _is_valid_yyyy_mm_dd(ret_date)
                THEN /\ StartLeg("inbound", Triple(destination, depart_city, ret_date.s))
                     /\ ErasedResponse(response') = ErasedResponse(response)
                ELSE /\ ReturnNoDebug(data, None,
                                      IF Tt = ROUNDTRIP THEN ReturnNotes(ret_date)
                                      ELSE <<>>)
                     /\ results' = options
        ELSE /\ Erase(inbound_data') = data
             /\ Erase(outbound_data') = Erase(outbound_data)
             /\ ReturnNoDebug(Erase(outbound_data), data, <<>>)
             /\ results' = options

\* the step from the gather when no debug is kept
GatherNoDebug ==
    LET options == Gathered(train, flight)
        analysis_text == _no_data_or_error_summary(leg.departure, leg.destination,
                                                   leg.date, options, profile_json)
    IN  IF analysis_text # None
        THEN PlanReturnedNoDebug(analysis_text, options) /\ UNCHANGED llm_input
        ELSE /\ pc' = "llm"
             /\ results' = options
             /\ llm_input' = Compact(options)
             /\ calls' = [calls EXCEPT ![leg.name].llm_calls = @ + 1]
             /\ train' = TrainIdle
             /\ flight' = FlightIdle
             /\ leg' = leg
             /\ Erase(outbound_data') = Erase(outbound_data)
             /\ Erase(inbound_data') = Erase(inbound_data)
             /\ ErasedResponse(response') = ErasedResponse(response)

\* the step from the summarizer's answer when no debug is kept
SummarizeNoDebug ==
    /\ \E resp \in LlmResponses(leg.date) :
         PlanReturnedNoDebug(AnalysisText(resp), results)
    /\ UNCHANGED llm_input

\* the first step of compare_transport when no debug is kept
CompareTransportNoDebug ==
    /\ IF Tt \notin {OUTBOUND, INBOUND, ROUNDTRIP}
       THEN /\ response' = tool_return(
                    [ok |-> FALSE, source |-> "transport-exec",
                     error |-> [k |-> "illegal_trip_type", trip_type |-> Tt]],
                    None, None, "unknown")
            /\ pc' = "done"
            /\ UNCHANGED <<leg, train, flight, results, calls>>
       ELSE IF ~IsDict(_safe_json_loads(profile_json))
       THEN /\ response' = [raised |-> Str(<<"AttributeError">>)]
            /\ pc' = "done"
            /\ UNCHANGED <<leg, train, flight, results, calls>>
       ELSE IF Missing(Tt, depart_city, destination, dep_date, ret_date) # <<>>
       THEN /\ response' = tool_return(
                    [ok |-> FALSE, source |-> "transport-exec",
                     error |-> [k |-> "missing_or_invalid",
                                fields |-> Missing(Tt, depart_city, destination,
                                                   dep_date, ret_date)]],
                    None, None, "unknown")
            /\ pc' = "done"
            /\ UNCHANGED <<leg, train, flight, results, calls>>
       ELSE /\ IF Tt = INBOUND
               THEN StartLeg("inbound", Triple(destination, depart_city, ret_date.s))
               ELSE StartLeg("outbound", Triple(depart_city, destination, dep_date.s))
            /\ UNCHANGED response
    /\ UNCHANGED <<outbound_data, inbound_data, llm_input>>

\* C19: whether debug is on or off, every step of compare_transport does to
\* everything but the debug objects what the request does when no debug is
\* kept: the steps of the provider tasks leave the debug objects, the leg data
\* and the response alone; the first step, the step from the gather and the
\* step from the summarizer's answer give the same provider and summarizer
\* calls, results, leg data (text, query, options) and response (ok, text,
\* trip type, legs) once the debug sub-objects are taken out; and with debug
\* off there is no debug sub-object to take out.
C19_DebugNotNeeded ==
    [][/\ UNCHANGED inputs
       /\ CASE pc = "start" -> CompareTransportNoDebug
            [] pc = "leg" /\ Joined -> GatherNoDebug
            [] pc = "llm" -> SummarizeNoDebug
            [] OTHER -> UNCHANGED <<pc, leg, results, llm_input, dbg_out, dbg_in,
                                    outbound_data, inbound_data, response>>
       /\ ~enable_debug
            => /\ outbound_data' = Erase(outbound_data')
               /\ inbound_data' = Erase(inbound_data')
               /\ response' = ErasedResponse(response')
               /\ dbg_out' = None /\ dbg_in' = None
       /\ enable_debug
            => \A d \in {outbound_data', inbound_data'} :
                  d # None => "debug" \in DOMAIN d]_vars

\* a round trip reported with debug on: both legs carry a debug sub-object,
\* one of them filled from a leg the summarizer was called for
C19_Witness ==
    /\ IsReport
    /\ enable_debug
    /\ Tt = ROUNDTRIP
    /\ inbound_data # None
    /\ "debug" \in DOMAIN outbound_data
    /\ "debug" \in DOMAIN inbound_data
    /\ outbound_data.debug.train_ok
    /\ calls.outbound.llm_calls > 0
    /\ response.ok.data.outbound = outbound_data

\* C21: the resolver returns a code of three Latin letters in upper case, and
\* resolves every other name through the aliases and the table: a name of the
\* table, of whatever length, to its code and a name the table does not hold
\* to None.
C21_ResolvesThroughTable ==
    pc = "leg" =>
      LET s == Strip(leg.destination)
      IN  to_iata_city_code(leg.destination)
            = IF Len(s) = 3 /\ \A i \in 1..3 : s[i] \in LatinLower \cup LatinUpper
              THEN Str(Upper(s))
              ELSE CITY_CODE_MAP(ALIASES(s))

\* the text of a leg whose summarizer call raised
FailureNotice(exc) == Text(<<[k |-> "analysis_failed", exc |-> exc]>>)

\* C22: the step that follows the summarizer's answer gives the leg the
\* failure notice, naming the error, if the call raised, and the summarizer's
\* text otherwise; either way the leg ends there with the provider results it
\* gathered, no second summarizer call is made for it, no exception leaves
\* compare_transport, and a round trip goes on to its return leg.
C22_SummarizerFailureIsText ==
    [][pc = "llm" =>
         /\ calls[leg.name].llm_calls = 1
         /\ calls' = calls
         /\ \E resp \in LlmResponses(leg.date) :
              LegDataAfter.text = IF resp.kind = "raise" THEN FailureNotice(resp.exc)
                                  ELSE AnalysisText(resp)
         /\ LegDataAfter.options = results
         /\ HasItems(LegDataAfter.options)
         /\ IF leg.name = "outbound" /\ Tt = ROUNDTRIP /\ _is_valid_yyyy_mm_dd(ret_date)
            THEN pc' = "leg" /\ leg'.name = "inbound"
            ELSE /\ pc' = "done"
                 /\ "raised" \notin DOMAIN response'
                 /\ response'.ok.ok
                 /\ response'.ok.data[leg.name] = LegDataAfter]_vars

\* a round trip whose outbound summarizer call raised: the notice is the
\* outbound text, the results are kept and the return leg was summarized
C22_Witness ==
    /\ IsReport
    /\ Tt = ROUNDTRIP
    /\ outbound_data.text = FailureNotice(Str(<<"RateLimitError">>))
    /\ HasItems(outbound_data.options)
    /\ calls.outbound.llm_calls = 1
    /\ inbound_data # None
    /\ calls.inbound.llm_calls = 1
    /\ HasLine(ReportText, {"analysis_failed"})

\* the number of items a payload holds: the length of a list, and for an
\* object the length of the longest list it holds
ItemsHeld(v) ==
    IF IsList(v) THEN Len(v.items)
    ELSE IF IsDict(v)
    THEN LET lens == {Len(v.d[k].items) : k \in {j \in DOMAIN v.d : IsList(v.d[j])}}
         IN  IF lens = {} THEN 0 ELSE CHOOSE n \in lens : \A m \in lens : m <= n
    ELSE 0

\* C23: while the summarizer is invoked, what it is given of each provider's
\* payload holds at most 10 items, whatever the payload's size and shape, and
\* the results kept for the leg outcome hold the whole payload, of which the
\* view is the beginning.
C23_AtMostTenItems ==
    pc = "llm" =>
      \A k \in DOMAIN llm_input :
         /\ ItemsHeld(Get(llm_input[k], "raw")) <= 10
         /\ IsList(Get(results[k], "raw"))
              => Get(llm_input[k], "raw").items = First10(Get(results[k], "raw").items)

\* the query of leg n as the profile has it: the return leg goes from the
\* profile's destination to its departure city on the return date
QueryOf(n) ==
    IF n = "inbound" THEN Triple(destination, depart_city, ret_date.s)
    ELSE Triple(depart_city, destination, dep_date.s)

\* C24: a leg that runs is the outbound leg of an outbound request or a round
\* trip, or the return leg of an inbound request or a round trip; the rail
\* and the flight query of the outbound leg are made for the profile's
\* departure city, destination and departure date, those of the return leg
\* for the profile's destination as departure, its departure city as
\* destination and the return date, and so is the leg's outcome.
C24_ReturnLegIsSwapped ==
    /\ pc \in {"leg", "llm"} =>
         /\ leg.name \in Legs
         /\ leg.name = "outbound" => Tt \in {OUTBOUND, ROUNDTRIP}
         /\ leg.name = "inbound" => Tt \in {INBOUND, ROUNDTRIP}
         /\ Triple(leg.departure, leg.destination, leg.date) = QueryOf(leg.name)
    /\ pc = "leg" =>
         /\ train.from_code # None =>
              /\ train.from_code = StationOf(QueryOf(leg.name).departure, 0)
              /\ train.to_code = StationOf(QueryOf(leg.name).destination, 0)
         /\ flight.pc = "call" =>
              /\ flight.dep_code = CodeOr(QueryOf(leg.name).departure)
              /\ flight.arr_code = CodeOr(QueryOf(leg.name).destination)
    /\ \A n \in Legs :
         DataOf(n) # None =>
           /\ Triple(DataOf(n).departure, DataOf(n).destination,
                     DataOf(n).departure_date) = QueryOf(n)
           /\ "query" \in DOMAIN DataOf(n).options.flight =>
                DataOf(n).options.flight.query
                  = FlightQuery(CodeOr(QueryOf(n).departure),
                                CodeOr(QueryOf(n).destination), QueryOf(n).date)
           /\ DataOf(n).options.train.ok =>
                DataOf(n).options.train.meta.date = QueryOf(n).date

\* the return leg of a round trip with both of its provider calls under way
C24_Witness ==
    /\ pc = "leg"
    /\ Tt = ROUNDTRIP
    /\ leg.name = "inbound"
    /\ leg.departure = ShangHai
    /\ leg.destination = BeiJing
    /\ leg.date = Date3
    /\ train.from_code = StationOf(ShangHai, 0)
    /\ flight.pc = "call"
    /\ flight.dep_code = Str(<<"S", "H", "A">>)
    /\ outbound_data # None
    /\ outbound_data.departure = BeiJing

\* the step ends the leg that runs
LegEnds == pc \in {"leg", "llm"} /\ LegDataAfter # DataOf(leg.name)

\* C25: in a round trip with a valid return date the end of the outbound leg,
\* whatever its providers returned, starts the return leg with a fresh rail
\* and a fresh flight query of its own; the leg that ends is given the results
\* of its own two queries and a text made from them alone (the
\* insufficient-data text of these results, or the summarizer's answer to
\* them); no step of the return leg changes the outbound outcome, and the
\* report holds both outcomes as they were made.
C25_LegsAreIndependent ==
    [][/\ LegEnds =>
            /\ LegDataAfter.options
                 = IF pc = "llm" THEN results ELSE Gathered(train, flight)
            /\ IF pc = "llm"
               THEN \E resp \in LlmResponses(leg.date) :
                       LegDataAfter.text = AnalysisText(resp)
               ELSE LegDataAfter.text
                      = _no_data_or_error_summary(leg.departure, leg.destination,
                                                  leg.date, Gathered(train, flight),
                                                  profile_json)
            /\ leg.name = "outbound" /\ Tt = ROUNDTRIP /\ _is_valid_yyyy_mm_dd(ret_date)
                 => /\ pc' = "leg"
                    /\ leg'.name = "inbound"
                    /\ train' = TrainStart
                    /\ flight' = FlightStart(QueryOf("inbound"))
                    /\ inbound_data' = None
            /\ leg.name = "inbound"
                 => /\ IsReport'
                    /\ response'.ok.data.inbound = inbound_data'
                    /\ response'.ok.data.outbound = outbound_data
       /\ pc \in {"leg", "llm"} /\ leg.name = "inbound"
            => outbound_data' = outbound_data
       /\ pc = "leg" /\ Joined /\ pc' = "llm"
            => llm_input' = Compact(Gathered(train, flight))]_vars

\* a round trip whose outbound leg failed with both providers and whose
\* return leg found data and was summarized
C25_Witness ==
    /\ IsReport
    /\ Tt = ROUNDTRIP
    /\ inbound_data # None
    /\ Both502(outbound_data)
    /\ IsTemplate(outbound_data.text)
    /\ HasItems(inbound_data.options)
    /\ calls.inbound.llm_calls = 1
    /\ ~IsTemplate(inbound_data.text)

\* the flight result the step after the gather records for the leg
FlightRecorded == (IF pc' = "llm" THEN results' ELSE LegDataAfter.options).flight

\* C26: no leg issues more than one call to the flight provider; the call,
\* answered or not, ends the flight query at once; and a call that failed (an
\* unsuccessful answer, or a raised error) is recorded after the gather as the
\* leg's flight Failure with the error of that call, without another call.
C26_FlightCalledOnce ==
    /\ [](\A n \in Legs : calls[n].flight_calls <= 1)
    /\ [][pc = "leg" /\ flight.pc = "call" /\ flight' # flight =>
            /\ calls[leg.name].flight_calls = 0
            /\ calls'[leg.name].flight_calls = 1
            /\ flight'.pc = "done"
            /\ \/ flight'.raised # None
               \/ flight'.result # None
                  /\ (flight'.result.ok \/ flight'.result.error.type = "api_error")]_vars
    /\ [][pc = "leg" /\ Joined /\ calls[leg.name].flight_calls = 1
            /\ (flight.raised # None \/ ~flight.result.ok) =>
            /\ ~FlightRecorded.ok
            /\ "raw" \notin DOMAIN FlightRecorded
            /\ FlightRecorded.error = IF flight.raised # None
                                      THEN ExceptionError(flight.raised)
                                      ELSE flight.result.error
            /\ calls'[leg.name].flight_calls = 1]_vars

\* a leg whose one flight call was answered with an HTTP 502 while the rail
\* query found tickets
C26_Witness ==
    /\ outbound_data # None
    /\ calls.outbound.flight_calls = 1
    /\ ~outbound_data.options.flight.ok
    /\ outbound_data.options.flight.error.type = "api_error"
    /\ outbound_data.options.flight.error.message = HTTP502
    /\ HasItems(outbound_data.options)

\* r is a Success: ok, a payload and no error
IsSuccess(r) ==
    /\ r.ok
    /\ "raw" \in DOMAIN r
    /\ r.raw # None
    /\ "error" \notin DOMAIN r

\* r is a Failure: not ok, an error and no payload
IsFailure(r) ==
    /\ ~r.ok
    /\ "error" \in DOMAIN r
    /\ r.error # None
    /\ "raw" \notin DOMAIN r

\* C27: the rail and the flight result of every leg outcome, and of the
\* results handed to the summarizer, is a Success or a Failure and not both.
C27_ExactlyOneVariant ==
    \A n \in Legs : \A k \in {"train", "flight"} :
       OptionsOf(n) # None =>
          /\ IsSuccess(OptionsOf(n)[k]) \/ IsFailure(OptionsOf(n)[k])
          /\ ~(IsSuccess(OptionsOf(n)[k]) /\ IsFailure(OptionsOf(n)[k]))


\* the request's task was cancelled while it awaited the gather
WasCancelled == response = [raised |-> Str(<<"CancelledError">>)]

UsableCodes(list) ==
    SelectSeq([i \in 1..Len(list) |-> _pick_station_code(list[i])],
              LAMBDA c : c # None)

\* every pair of a departure code and an arrival code, the departure codes
\* as the outer loop and both in list order
PairsInOrder(deps, arrs) ==
    [k \in 1..(Len(deps) * Len(arrs)) |->
        <<deps[((k - 1) \div Len(arrs)) + 1], arrs[((k - 1) % Len(arrs)) + 1]>>]

\* the station list the provider gave for the departure city
DepStationsGiven == _extract_result_json(Get(train.dep_stations, "data")).items

\* xs is the start of ys
IsPrefix(xs, ys) == Len(xs) <= Len(ys) /\ xs = SubSeq(ys, 1, Len(xs))

\* C30: In the city-station fallback the lists probed are the first entries
\* of the provider's lists, at most 5 per city; the ticket queries issued so
\* far are the first of the sequence of all pairs of usable codes, taken with
\* the departure station as the outer loop and both lists in their order, so
\* that they are at most 25, entries without a usable code give no query,
\* and each probe adds the next pair of that sequence.
C30_ProbeBoundAndOrder ==
    /\ [](Len(train.probed) <= 25)
    /\ [](train.pc = "probe" =>
            /\ Len(train.dep_list) <= 5
            /\ Len(train.arr_list) <= 5
            /\ IsPrefix(train.dep_list, DepStationsGiven)
            /\ Len(train.probed) >= 1
            /\ IsPrefix(train.probed,
                        PairsInOrder(UsableCodes(train.dep_list),
                                     UsableCodes(train.arr_list))))
    /\ [][train.pc = "probe" /\ train'.pc = "probe" /\ train' # train =>
            /\ train'.dep_list = train.dep_list
            /\ train'.arr_list = train.arr_list
            /\ Len(train'.probed) = Len(train.probed) + 1]_vars
    /\ [][/\ train.pc = "probe"
          /\ train'.pc = "done"
          /\ train'.result.meta.fallback = "tried_top5_city_stations_but_empty"
          => train.probed = PairsInOrder(UsableCodes(train.dep_list),
                                         UsableCodes(train.arr_list))]_vars

\* the 25th query of a fallback over two lists of more than five stations
\* that all carry a code
C30_Witness ==
    /\ train.pc = "probe"
    /\ Len(train.probed) = 25
    /\ Len(DepStationsGiven) > 5
    /\ train.probed[25] = <<_pick_station_code(DepStationsGiven[5]),
                            _pick_station_code(train.arr_list[5])>>


\* the result r of a provider task is a Failure made from an answer of an
\* HTTP status of 400 or more
FailedByHttpStatus(r) ==
    /\ r # None
    /\ ~r.ok
    /\ r.error.type = "api_error"
    /\ "status_code" \in DOMAIN r.error.meta
    /\ r.error.meta.status_code >= 400

\* C31: A Failure of the rail task (after its attempts are used up) or of
\* the flight task (after its one call) that was made from an answer with an
\* HTTP status of 400 or more carries that status in the http_status field
\* of its error.
C31_FailureCarriesHttpStatus ==
    \A r \in {train.result, flight.result} :
        FailedByHttpStatus(r) =>
            /\ r.error.http_status # None
            /\ r.error.http_status = r.error.meta.status_code


\* the answer c of get-tickets was read by _rpc, and what it holds is
\* neither a ticket list nor an object holding one under data
MalformedTickets(c) ==
    /\ c.success
    /\ LET result_obj == _extract_result_json(Get(c, "data"))
       IN  /\ ~IsList(result_obj)
           /\ ~(IsDict(result_obj) /\ IsList(DGet(result_obj, "data")))

\* C32: While the representative-station ticket query is awaited, every
\* answer the provider may give whose payload is neither a ticket list nor
\* an object holding one makes the attempt fail with an error of kind
\* parse_error: it is never taken for a Success with zero items.
C32_MalformedTicketsIsParseError ==
    pc = "leg" /\ train.pc = "tickets" =>
        \A resp \in TicketsResponses(leg.date, train.attempt) :
            LET c == call_tool(MCP_12306_REMOTE_URL, "get-tickets",
                               TicketsArgs(train.from_code, train.to_code, leg.date),
                               Answer(resp))
                first == _get_tickets(c, train.from_code, train.to_code, leg.date)
                after == AfterStage1(train, first)
            IN  ~Raised(MCP_12306_REMOTE_URL, resp) /\ MalformedTickets(c) =>
                    /\ ~first.success
                    /\ after.pc = "sleep"
                    /\ after.last_error.type = "parse_error"


\* C33: The pauses of the rail task, in tenths of a second, are 4, 8, 12 in
\* this order, one after each failed attempt: the pause after the n-th failed
\* attempt is 4n. A pause is added exactly by the step that fails an attempt
\* (it records that attempt's error and starts the pause); an attempt that
\* succeeds adds none, so a task done with a Success at attempt n has paused
\* n - 1 times and a task done with a Failure has paused three times.
C33_BackoffSchedule ==
    /\ [](/\ Len(train.delays) <= retries
          /\ train.delays = [n \in 1..Len(train.delays) |-> 4 * n]
          /\ train.pc = "sleep" => Len(train.delays) = train.attempt
          /\ train.pc = "done" =>
               Len(train.delays) = IF train.result.ok THEN train.attempt - 1
                                   ELSE retries)
    /\ [][Len(train'.delays) > Len(train.delays) <=>
            train.pc \notin {"sleep", "done", "idle"} /\ train'.pc = "sleep"]_vars
    /\ [][Len(train'.delays) > Len(train.delays) =>
            /\ train'.delays = Append(train.delays, 4 * train.attempt)
            /\ train'.attempt = train.attempt
            /\ train'.last_error # None]_vars

\* the rail task gave up after three failed attempts and three pauses
C33_Witness ==
    /\ train.pc = "done"
    /\ ~train.result.ok
    /\ train.delays = <<4, 8, 12>>


\* an earlier attempt of this leg's rail query had resolved both cities to
\* their station codes: it failed at the ticket query made with them
ResolvedBefore ==
    /\ train.last_error # None
    /\ train.last_error.type = "api_error"
    /\ "payload" \in DOMAIN train.last_error.meta
    /\ train.last_error.meta.payload.params.name = "get-tickets"

\* C34: Once an attempt of the rail query has resolved the two cities to
\* their station codes, no later attempt in the same process awaits the
\* resolution call get-station-code-of-citys for them again.
C34_CitiesResolvedOnce ==
    ResolvedBefore => train.pc # "codes"


\* C35: The insufficient-data text of a leg ends with the question whether
\* the return trip should be compared too exactly when the profile's return
\* date is a YYYY-MM-DD date; the question names that return date and stands
\* nowhere but at the end, so it is absent whenever the return date is absent
\* or no such date.
C35_ReturnQuestionIffReturnDate ==
    \A n \in Legs :
        DataOf(n) # None /\ IsTemplate(DataOf(n).text) =>
            LET ls == DataOf(n).text.lines
            IN  /\ ls[Len(ls)].k = "return_question" <=> ReturnDateIsDate
                /\ \A i \in 1..(Len(ls) - 1) : ls[i].k # "return_question"
                /\ ReturnDateIsDate =>
                     ls[Len(ls)].return_date = DGet(profile_json.enc, "return_date")

\* an outbound-only request whose profile holds a return date got the
\* insufficient-data text with the question at its end
C35_Witness ==
    /\ NormTripType(trip_type) = OUTBOUND
    /\ outbound_data # None
    /\ IsTemplate(outbound_data.text)
    /\ ReturnDateIsDate
    /\ outbound_data.text.lines[Len(outbound_data.text.lines)].k = "return_question"


\* C36: The report of an inbound-only request with valid fields holds the
\* outcome of one leg, queried from the destination to the departure city on
\* the return date, as its inbound outcome and no outbound outcome; no
\* provider was called for an outbound leg; and the block of that leg in the
\* text begins with the label of the return leg.
C36_InboundOnlyIsLabelledInbound ==
    IsReport /\ Tt = INBOUND =>
        /\ outbound_data = None
        /\ calls.outbound = NoCalls
        /\ inbound_data # None
        /\ Triple(inbound_data.departure, inbound_data.destination,
                  inbound_data.departure_date)
             = Triple(destination, depart_city, ret_date.s)
        /\ response.ok.data.outbound = None
        /\ response.ok.data.inbound = inbound_data
        /\ ReportText.lines[1] = LabelOf("inbound_label", inbound_data)


\* C37: In every leg that ran with debug enabled, the debug flags agree
\* with the gate: the leg's text is the insufficient-data text, and the
\* summarizer was not invoked, exactly when train_ok and flight_ok are both
\* false; each flag is true exactly when the raw item count recorded beside
\* it is greater than zero, and that count is the number of items of the
\* provider's result, so a Success with zero items has its flag false.
C37_DebugFlagsAgreeWithGate ==
    \A n \in Legs :
        DataOf(n) # None /\ "debug" \in DOMAIN DataOf(n) =>
            LET d == DataOf(n).debug
                o == DataOf(n).options
            IN  /\ IsTemplate(DataOf(n).text) <=> ~d.train_ok /\ ~d.flight_ok
                /\ calls[n].llm_calls = 0 <=> ~d.train_ok /\ ~d.flight_ok
                /\ d.train_ok <=> d.train_raw_len > 0
                /\ d.flight_ok <=> d.flight_raw_len > 0
                /\ d.train_raw_len = Items(o.train)
                /\ d.flight_raw_len = Items(o.flight)
                /\ o.train.ok /\ Items(o.train) = 0 => ~d.train_ok
                /\ o.flight.ok /\ Items(o.flight) = 0 => ~d.flight_ok

\* a leg with debug whose rail query was a Success with zero items and
\* whose flight query answered with a text: both flags false, the
\* insufficient-data text
C37_Witness ==
    /\ outbound_data # None
    /\ "debug" \in DOMAIN outbound_data
    /\ outbound_data.options.train.ok
    /\ Items(outbound_data.options.train) = 0
    /\ outbound_data.options.flight.ok
    /\ IsStr(Get(outbound_data.options.flight, "raw"))
    /\ ~outbound_data.debug.train_ok
    /\ ~outbound_data.debug.flight_ok
    /\ IsTemplate(outbound_data.text)


\* the markers query_12306_trains puts on what its fallback stage returns
FallbackMarkers ==
    {"failed_to_get_city_stations", "city_stations_format_invalid",
     "tried_top5_city_stations", "tried_top5_city_stations_but_empty"}

\* C38: Once the representative-station query of an attempt has succeeded
\* with an empty list, nothing that fails afterwards in that attempt (the
\* lookup of a city's stations, a station list of the wrong form, a probe)
\* fails the attempt: the rail task does not pause for another attempt, and
\* when it is done its result is a Success carrying a fallback marker.
C38_FallbackFailuresAbsorbed ==
    pc = "leg" /\ train.stage1 = "empty" =>
        /\ train.pc # "sleep"
        /\ train.pc = "done" =>
             /\ train.result.ok
             /\ train.result.meta.fallback \in FallbackMarkers


\* request i goes through store.load in this step
Loads(i) == chat.reqs[i].pc = "new" /\ chat'.reqs[i].pc # "new"

\* the row of the session is older than the store keeps sessions
Expired(sid) ==
    /\ chat.db[sid] # None
    /\ chat.now - chat.db[sid].updated_at > ttl_seconds

\* C39: load never returns a session last updated more than ttl_seconds
\* ago; loading an expired session returns None and removes it from the
\* store, and every later load of that session returns None as well; loading
\* a live session returns the profile and history of the latest save and
\* leaves the store as it is.
C39_ExpiredSessionStaysGone ==
    [][\A i \in 1..MaxRequests :
         Loads(i) =>
           LET sid == chat'.reqs[i].sid
               loaded == chat'.reqs[i].state
           IN  /\ loaded # None =>
                     /\ ~Expired(sid)
                     /\ loaded = SessionState(chat.db[sid])
                     /\ chat'.db = chat.db
               /\ Expired(sid) => loaded = None /\ chat'.db[sid] = None
               /\ sid \in chat.expired => loaded = None]_vars

\* the stored history holds the user's message of request i at one place and
\* that of request j at another
HoldsBothTurns(history, i, j) ==
    \E a, b \in 1..Len(history) :
        /\ a # b
        /\ history[a].type = "human"
        /\ history[a].data.content = chat.reqs[i].user_text
        /\ history[b].type = "human"
        /\ history[b].data.content = chat.reqs[j].user_text

\* C40: when two chat_message requests of one session overlap, both loading
\* the session before either saves, the history stored once both have
\* completed holds the messages of both turns.
C40_NoLostChatTurn ==
    \A i, j \in 1..MaxRequests :
        ( /\ i \in chat.reqs[j].overlaps
          /\ chat.reqs[i].pc = "done"
          /\ chat.reqs[j].pc = "done"
          /\ \A k \in 1..MaxRequests \ {i, j} :
                 chat.reqs[k].pc \in {"new", "404", "400"}
          /\ chat.db[chat.reqs[j].sid] # None )
        => HoldsBothTurns(chat.db[chat.reqs[j].sid].history, i, j)

====
